---------------------------- MODULE Spec2Model ----------------------------
(***************************************************************************)
(* A model of session-rs: the WebSocket transport (frame codec, the        *)
(* writer/reader locks, fragment reassembly in WebSocket::read), the       *)
(* opening handshake (server and client), the listener's session_loop and  *)
(* the session multiplexer.                                                *)
(*                                                                         *)
(* The module holds several specifications over one set of variables; each *)
(* specification moves only its own group of variables:                    *)
(*   SpecWrite      concurrent send operations on clones of one WebSocket  *)
(*   SpecRead       WebSocket::read / read_frame over an inbound stream    *)
(*   SpecHandshake  handle_websocket_handshake, handshake, connect and     *)
(*                  SessionServer::accept / session_loop                   *)
(*   SpecRpc        Session::request and the receiver's fan-out            *)
(*   SpecClose      the session's close hook and its termination paths     *)
(***************************************************************************)
EXTENDS Integers, Sequences, FiniteSets, TLC

(***************************************************************************)
(* Bounds of the model.                                                    *)
(***************************************************************************)
\* tasks that call the send operations concurrently
NWriters == 2
\* send calls made in one run of SpecWrite
MaxCalls == 2
\* frames the peer puts on the inbound stream in one run of SpecRead
MaxInFrames == 3
\* TCP connections the listener accepts in one run of SpecHandshake
MaxConns == 2
\* request calls made in one run of SpecRpc
MaxRequests == 3
\* on_close registrations made in one run of SpecClose
MaxRegs == 2
\* pings the keepalive task sends
MaxPings == 2
\* frames the peer sends to two concurrent readers
MaxConcFrames == 2
\* frames the peer sends while readers and ping loops share the connection
MaxLockFrames == 2
\* frames and read failures the peer of read_t produces
MaxRtFrames == 3

(***************************************************************************)
(* Bytes.                                                                  *)
(***************************************************************************)
RECURSIVE XorBits(_, _, _)
XorBits(a, b, n) ==
    IF n = 0 THEN 0
    ELSE (((a % 2) + (b % 2)) % 2) + 2 * XorBits(a \div 2, b \div 2, n - 1)

\* u8 ^ u8
Xor8(a, b) == XorBits(a, b, 8)

\* buf[i] ^= mask[i % 4] for every i (0-based in the source)
XorMask(buf, mask) ==
    [i \in 1..Len(buf) |-> Xor8(buf[i], mask[((i - 1) % 4) + 1])]

\* (len as u16).to_be_bytes()
U16BE(n) == << ((n \div 256) % 256), (n % 256) >>

RECURSIVE BEBytes(_, _)
BEBytes(n, k) ==
    IF k = 0 THEN << >> ELSE Append(BEBytes(n \div 256, k - 1), (n % 256))

\* (len as u64).to_be_bytes()
U64BE(n) == BEBytes(n, 8)

RECURSIVE FromBE(_)
FromBE(bs) ==
    IF bs = << >> THEN 0
    ELSE 256 * FromBE(SubSeq(bs, 1, Len(bs) - 1)) + bs[Len(bs)]

Take(s, n) == SubSeq(s, 1, n)
Drop(s, n) == SubSeq(s, n + 1, Len(s))
IsPrefix(p, s) == Len(p) <= Len(s) /\ Take(s, Len(p)) = p

(***************************************************************************)
(* String::from_utf8: whether a byte sequence is well-formed UTF-8.        *)
(***************************************************************************)
IsCont(b) == b >= 128 /\ b <= 191

RECURSIVE Utf8Valid(_)
Utf8Valid(bs) ==
    IF bs = << >> THEN TRUE
    ELSE LET b == bs[1]
             n == Len(bs)
         IN  IF b <= 127 THEN Utf8Valid(Drop(bs, 1))
             ELSE IF b >= 194 /\ b <= 223
                  THEN n >= 2 /\ IsCont(bs[2]) /\ Utf8Valid(Drop(bs, 2))
             ELSE IF b >= 224 /\ b <= 239
                  THEN /\ n >= 3
                       /\ IsCont(bs[2]) /\ IsCont(bs[3])
                       /\ (b = 224 => bs[2] >= 160)
                       /\ (b = 237 => bs[2] <= 159)
                       /\ Utf8Valid(Drop(bs, 3))
             ELSE IF b >= 240 /\ b <= 244
                  THEN /\ n >= 4
                       /\ IsCont(bs[2]) /\ IsCont(bs[3]) /\ IsCont(bs[4])
                       /\ (b = 240 => bs[2] >= 144)
                       /\ (b = 244 => bs[2] <= 143)
                       /\ Utf8Valid(Drop(bs, 4))
             ELSE FALSE

(***************************************************************************)
(* Opcodes (RFC 6455) as the send operations use them.                     *)
(***************************************************************************)
OpCont == 0
OpText == 1
OpBinary == 2
OpClose == 8
OpPing == 9
OpPong == 10

NoKey == << >>

(***************************************************************************)
(* WebSocket::send_frame: the bytes of one frame.                          *)
(***************************************************************************)
\* the connection each constructor returns: Ok(Self { .., mask_payload })
HandshakeWs == [mask_payload |-> FALSE]
ConnectWs == [mask_payload |-> TRUE]

\* the header vector: FIN + opcode, the length with the mask bit, the key
SendFrameHeaderNoMaskBit(mask, opcode, len, key) ==
    << 128 + opcode, len >> \o (IF mask THEN key ELSE << >>)
SendFrameHeader(mask, opcode, len, key) ==
    LET maskBit == IF mask THEN 128 ELSE 0
        lenBytes == IF len < 126 THEN << len + maskBit >>
                    ELSE IF len <= 65535 THEN << 126 + maskBit >> \o U16BE(len)
                    ELSE << 127 + maskBit >> \o U64BE(len)
    IN  << 128 + opcode >> \o lenBytes \o (IF mask THEN key ELSE << >>)

\* the second write_all: the payload, XOR-masked when the role masks
SendFrameBody(mask, payload, key) ==
    IF mask THEN XorMask(payload, key) ELSE payload

SendFrameBytes(mask, opcode, payload, key) ==
    SendFrameHeader(mask, opcode, Len(payload), key)
        \o SendFrameBody(mask, payload, key)


(***************************************************************************)
(* State.                                                                  *)
(***************************************************************************)
VARIABLES
    \* --- the WebSocket connection (src/src/ws/mod.rs) ---
    maskPayload,  \* WebSocket.mask_payload: TRUE for connect, FALSE for handshake
    wlock,        \* holder of the writer mutex, 0 when free
    rlock,        \* holder of the reader mutex, 0 when free
    pc,           \* each task's position
    sf,           \* each task's send_frame call: arguments, mask key, result
    rf,           \* each task's read_frame call: locals and result
    rd,           \* each task's read call: first frame's opcode, payload, result
    wire,         \* bytes written to the socket, in order
    wireTag,      \* for each byte of wire, the send_frame call that wrote it
    sockBroken,   \* the transport failed a write: later writes fail too
    ncalls,       \* send_frame calls made so far
    callLog,      \* for each send_frame call: opcode, payload, key, status
    inb,          \* bytes that arrived from the peer and are not read yet
    peerClosed,   \* the peer closed its sending side (reads hit EOF)
    peerMasks,    \* whether the peer masks the frames it sends
    nIn,          \* frames the peer has sent
    peerLog,      \* the frames the peer sent since the current read began
    took,         \* for each read_exact that got its bytes: the task, the part
                  \* of the frame, whether the read_frame call is the first
                  \* of its read call, and the FIN bit and opcode decoded
    \* --- the listener and the server handshake (server.rs, handshake.rs) ---
    hsPc,         \* position of session_loop / accept / the handshake
    stream,       \* lines of the accepted stream that are not read yet
    curReq,       \* the request the accepted stream carries
    headers,      \* the HashMap of parsed headers: lowercased name -> value
    hsResp,       \* what the handshake wrote to the stream
    hsRes,        \* what handle_websocket_handshake returned
    loopRes,      \* what session_loop returned, "running" while it loops
    nConn,        \* TCP connections accepted so far
    sess,         \* the connection accept made of the current stream
    nSess,        \* sessions accept has yielded
    nRecv,        \* receivers session_loop has started
    nSpawn,       \* per-session functions session_loop has spawned
    \* --- the client handshake (handshake.rs, connect) ---
    ccPc,         \* position of connect
    ccKey,        \* the Sec-WebSocket-Key it sent
    ccReply,      \* the response the server gave
    ccStream,     \* lines of the response that are not read yet
    ccStatus,     \* the status line connect read
    ccAccept,     \* sec_accept: the last Sec-WebSocket-Accept value, or "none"
    ccRes,        \* what connect returned
    ccWs,         \* the connection connect made
    ccPeer,       \* the server connect talks to: "ours" or "foreign"
    \* --- the session: request correlation (spec.md, 4.4) ---
    idCounter,    \* the request-id counter
    rq,           \* per task: position of its request call, its id, its result
    sub,          \* per task: the messages its fan-out subscription holds
    peerGot,      \* ids of the requests the peer has received and not answered
    inbox,        \* response/error messages that arrived, in arrival order
    replies,      \* every response/error message the peer has sent
    nReq,         \* request calls made so far
    emitted,      \* the allocations so far, in order: counter before, id
    dp,           \* inbound requests: the handler map, the requests received
                  \* and not yet dispatched, the one being handled, the
                  \* replies sent; regs, done: what was registered, dispatched
    \* --- the session: close hook (spec.md, 4.4) ---
    hookSlot,     \* the close-hook slot: << >> or << handler >>
    cl,           \* per agent: position in close / hook trigger, triggers left
    held,         \* per agent: what it took out of the slot
    invoked,      \* per handler: how many times it has run
    nReg,         \* on_close registrations so far
    nClose,       \* local close() calls so far
    lateReg,      \* a handler was registered after the slot had been emptied
    ka,           \* the keepalive task: pings sent, pongs it was notified of
    \* --- the synchronous Session::read_t (src/src/session.rs) ---
    rt,           \* the read_t call: position, locals, result
    rtIn,         \* what the stream holds next: a frame or the end of reading
    rtN           \* frames the peer has sent to read_t

wsvars == << maskPayload, wlock, rlock, pc, sf, rf, rd, wire, wireTag,
             sockBroken, ncalls, callLog, inb, peerClosed, peerMasks, nIn,
             peerLog, took >>

hsvars == << hsPc, stream, curReq, headers, hsResp, hsRes, loopRes, nConn,
             sess, nSess, nRecv, nSpawn >>

ccvars == << ccPc, ccKey, ccReply, ccStream, ccStatus, ccAccept, ccRes, ccWs,
             ccPeer >>

rpcvars == << idCounter, rq, sub, peerGot, inbox, replies, nReq, emitted, dp >>

clvars == << hookSlot, cl, held, invoked, nReg, nClose, lateReg, ka >>

rtvars == << rt, rtIn, rtN >>

sevars == << rpcvars, clvars, rtvars >>

vars == << wsvars, hsvars, ccvars, sevars >>

\* what the actions of the WebSocket connection leave alone
nonWs == << hsvars, ccvars, sevars >>

Tasks == 1..NWriters

\* the agents that can end a session: the tasks that call close(), the
\* receiver task, the keepalive task
Receiver == NWriters + 1
Keepalive == NWriters + 2
Agents == 1..(NWriters + 2)
Handlers == 1..MaxRegs

\* a mask key rand::random() returns
OutKeys == { << 1, 2, 3, 255 >> }

\* payloads the callers of send (valid UTF-8) and send_bin pass
TextPayloads == { << 104, 105 >> }
BinPayloads == { << 255 >> }

NoSf == [op |-> 0, payload |-> << >>, key |-> NoKey, ret |-> "idle",
         res |-> "None", call |-> 0]
NoRf == [fin |-> FALSE, op |-> 0, masked |-> FALSE, len |-> 0, mask |-> NoKey,
         payload |-> << >>, ret |-> "idle", res |-> "None", used |-> 0]
NoRd == [op |-> 0, payload |-> << >>, pending |-> "None", res |-> "None",
         val |-> << >>, unmasked |-> FALSE, sent |-> << >>, aligned |-> TRUE]

(***************************************************************************)
(* WebSocket::send_frame, step by step.                                    *)
(***************************************************************************)
\* self.writer.lock().await returns only when no other task holds the guard
WriterFreeNoLock == TRUE
WriterFree == wlock = 0

\* a caller enters send_frame(opcode, payload); ret is where it returns to
StartSend(t, opcode, payload, ret) ==
    /\ pc' = [pc EXCEPT ![t] = "sf_lock"]
    /\ sf' = [sf EXCEPT ![t] = [op |-> opcode, payload |-> payload,
                                key |-> NoKey, ret |-> ret, res |-> "None",
                                call |-> ncalls + 1]]
    /\ ncalls' = ncalls + 1
    /\ callLog' = Append(callLog, [op |-> opcode, payload |-> payload,
                                   key |-> NoKey, st |-> "run", task |-> t])

\* the guard is taken; the header is built and the mask key drawn
SfLock(t) ==
    /\ pc[t] = "sf_lock"
    /\ WriterFree
    /\ wlock' = t
    /\ \E k \in (IF maskPayload THEN OutKeys ELSE {NoKey}) :
          /\ sf' = [sf EXCEPT ![t].key = k]
          /\ callLog' = [callLog EXCEPT ![sf[t].call].key = k]
    /\ pc' = [pc EXCEPT ![t] = "sf_hdr"]
    /\ UNCHANGED << took, maskPayload, rlock, rf, rd, wire, wireTag, sockBroken,
                    ncalls, inb, peerClosed, peerMasks, nIn, peerLog >>
    /\ UNCHANGED nonWs

\* the chunk the task writes next: the header, then the payload
SfChunk(t) ==
    IF pc[t] = "sf_hdr"
    THEN SendFrameHeader(maskPayload, sf[t].op, Len(sf[t].payload), sf[t].key)
    ELSE SendFrameBody(maskPayload, sf[t].payload, sf[t].key)

TagSeq(n, c) == [i \in 1..n |-> c]

\* writer.write_all(chunk) succeeds: the whole chunk is on the wire
SfWrite(t) ==
    /\ pc[t] \in {"sf_hdr", "sf_pay"}
    /\ wlock = t
    /\ ~sockBroken \/ SfChunk(t) = << >>
    /\ wire' = wire \o SfChunk(t)
    /\ wireTag' = wireTag \o TagSeq(Len(SfChunk(t)), sf[t].call)
    /\ pc' = [pc EXCEPT ![t] = IF pc[t] = "sf_hdr" THEN "sf_pay" ELSE "sf_flush"]
    /\ UNCHANGED << took, maskPayload, wlock, rlock, sf, rf, rd, sockBroken, ncalls,
                    callLog, inb, peerClosed, peerMasks, nIn, peerLog >>
    /\ UNCHANGED nonWs

\* writer.write_all(chunk) fails (the `?`): a strict prefix of the chunk may
\* have been written; the guard is dropped and send_frame returns Err(Io)
SfWriteFail(t) ==
    /\ pc[t] \in {"sf_hdr", "sf_pay"}
    /\ wlock = t
    /\ SfChunk(t) # << >>
    /\ \E n \in {0, Len(SfChunk(t)) - 1} :
          /\ sockBroken => n = 0
          /\ wire' = wire \o Take(SfChunk(t), n)
          /\ wireTag' = wireTag \o TagSeq(n, sf[t].call)
    /\ sockBroken' = TRUE
    /\ wlock' = 0
    /\ sf' = [sf EXCEPT ![t].res = "Err"]
    /\ callLog' = [callLog EXCEPT ![sf[t].call].st = "err"]
    /\ pc' = [pc EXCEPT ![t] = sf[t].ret]
    /\ UNCHANGED << took, maskPayload, rlock, rf, rd, ncalls, inb, peerClosed,
                    peerMasks, nIn, peerLog >>
    /\ UNCHANGED nonWs

\* the same, the guard still held when send_frame returns
SfFlushKeepsGuard(t) ==
    /\ pc[t] = "sf_flush"
    /\ wlock = t
    /\ wlock' = wlock
    /\ sf' = [sf EXCEPT ![t].res = "Ok"]
    /\ callLog' = [callLog EXCEPT ![sf[t].call].st = "ok"]
    /\ rd' = [rd EXCEPT ![t].sent =
                 IF sf[t].ret = "done_send" THEN @ ELSE Append(@, sf[t].op)]
    /\ pc' = [pc EXCEPT ![t] = sf[t].ret]
    /\ UNCHANGED << took, maskPayload, rlock, rf, wire, wireTag, sockBroken, ncalls,
                    inb, peerClosed, peerMasks, nIn, peerLog >>
    /\ UNCHANGED nonWs

\* writer.flush() and Ok(()): the guard is dropped at the end of the function
SfFlush(t) ==
    /\ pc[t] = "sf_flush"
    /\ wlock = t
    /\ wlock' = 0
    /\ sf' = [sf EXCEPT ![t].res = "Ok"]
    /\ callLog' = [callLog EXCEPT ![sf[t].call].st = "ok"]
    /\ rd' = [rd EXCEPT ![t].sent =
                 IF sf[t].ret = "done_send" THEN @ ELSE Append(@, sf[t].op)]
    /\ pc' = [pc EXCEPT ![t] = sf[t].ret]
    /\ UNCHANGED << took, maskPayload, rlock, rf, wire, wireTag, sockBroken, ncalls,
                    inb, peerClosed, peerMasks, nIn, peerLog >>
    /\ UNCHANGED nonWs

(***************************************************************************)
(* The send operations: send, send_bin, send_ping, send_pong, close.       *)
(***************************************************************************)
SendOps ==
    [op : {OpText}, payload : TextPayloads]
        \cup [op : {OpBinary}, payload : BinPayloads]
        \cup [op : {OpPing, OpPong, OpClose}, payload : {<< >>}]

SendCall(t) ==
    /\ pc[t] \in {"idle", "done_send"}
    /\ ncalls < MaxCalls
    /\ \E o \in SendOps : StartSend(t, o.op, o.payload, "done_send")
    /\ UNCHANGED << took, maskPayload, wlock, rlock, rf, rd, wire, wireTag,
                    sockBroken, inb, peerClosed, peerMasks, nIn, peerLog >>
    /\ UNCHANGED nonWs

\* no response written yet
NoResp == [code |-> "none", accept |-> "none"]

\* the other components at rest
InitHsIdle ==
    /\ hsPc = "accept"
    /\ stream = << >>
    /\ curReq = << >>
    /\ headers = << >>
    /\ hsResp = NoResp
    /\ hsRes = "none"
    /\ loopRes = "running"
    /\ nConn = 0
    /\ sess = << >>
    /\ nSess = 0
    /\ nRecv = 0
    /\ nSpawn = 0

InitCcIdle ==
    /\ ccPc = "idle"
    /\ ccKey = "none"
    /\ ccReply = << >>
    /\ ccStream = << >>
    /\ ccStatus = FALSE
    /\ ccAccept = "absent"
    /\ ccRes = "none"
    /\ ccWs = << >>
    /\ ccPeer = "none"

NoRq == [pc |-> "idle", id |-> << 0, 0 >>, ok |-> FALSE, val |-> << 0, 0 >>]
NoCl == [pc |-> "idle", left |-> 0]
\* method names, and the handler-map entry of a name nothing is registered
\* under; a handler is its registration number and what it returns
Methods == {"ma", "mb"}
NoHandler == [n |-> 0, b |-> "absent"]
\* read_t before a call: expecting_continuation, message_type (0: None),
\* message_payload; res: what it returned; sent: the frames it sent; log: the
\* frames it took from the stream, each with expecting_continuation before it
NoRt == [pc |-> "idle", expecting |-> FALSE, type |-> 0, payload |-> << >>,
         res |-> "", sent |-> << >>, log |-> << >>]

InitSeRest ==
    /\ rq = [t \in Tasks |-> NoRq]
    /\ sub = [t \in Tasks |-> [on |-> FALSE, q |-> << >>]]
    /\ peerGot = {}
    /\ inbox = << >>
    /\ replies = {}
    /\ nReq = 0
    /\ hookSlot = << >>
    /\ cl = [a \in Agents |-> NoCl]
    /\ held = [a \in Agents |-> << >>]
    /\ invoked = [h \in Handlers |-> 0]
    /\ nReg = 0
    /\ nClose = 0
    /\ lateReg = FALSE
    /\ emitted = << >>
    /\ dp = [map |-> [m \in Methods |-> NoHandler], regs |-> << >>,
             q |-> << >>, cur |-> << >>, out |-> << >>, done |-> << >>,
             nin |-> 0]
    /\ ka = [pings |-> 0, pongs |-> 0, missed |-> 0, closes |-> 0]
    /\ rt = NoRt
    /\ rtIn = << >>
    /\ rtN = 0

InitSeIdle ==
    /\ idCounter = << 0, 0 >>
    /\ InitSeRest

InitWs ==
    /\ maskPayload \in {HandshakeWs.mask_payload, ConnectWs.mask_payload}
    /\ wlock = 0
    /\ rlock = 0
    /\ pc = [t \in Tasks |-> "idle"]
    /\ sf = [t \in Tasks |-> NoSf]
    /\ rf = [t \in Tasks |-> NoRf]
    /\ rd = [t \in Tasks |-> NoRd]
    /\ wire = << >>
    /\ wireTag = << >>
    /\ sockBroken = FALSE
    /\ ncalls = 0
    /\ callLog = << >>
    /\ inb = << >>
    /\ peerClosed = FALSE
    /\ peerMasks \in BOOLEAN
    /\ nIn = 0
    /\ peerLog = << >>
    /\ took = << >>

InitWrite ==
    /\ InitWs
    /\ peerMasks = ~maskPayload
    /\ InitHsIdle
    /\ InitCcIdle
    /\ InitSeIdle

NextWrite ==
    \E t \in Tasks :
        \/ SendCall(t)
        \/ SfLock(t)
        \/ SfWrite(t)
        \/ SfWriteFail(t)
        \/ SfFlush(t)

SpecWrite == InitWrite /\ [][NextWrite]_vars

(***************************************************************************)
(* WebSocket::start_ping_loop: task 1 is the spawned task, the other tasks *)
(* keep sending on their clones.                                           *)
(***************************************************************************)
\* `if s.send_ping().await.is_err() { break; }`
PlAfterKeepOn(res) == "pl_tick"
PlAfter(res) == IF res = "Err" THEN "pl_done" ELSE "pl_tick"

\* interval.tick().await completes (at once the first time), then send_ping;
\* the ticks go on for one call more than the other tasks' sends
PlTick(t) ==
    /\ pc[t] \in {"idle", "pl_tick"}
    /\ ncalls <= MaxCalls
    /\ StartSend(t, OpPing, << >>, "pl_ret")
    /\ UNCHANGED << took, maskPayload, wlock, rlock, rf, rd, wire, wireTag,
                    sockBroken, inb, peerClosed, peerMasks, nIn, peerLog >>
    /\ UNCHANGED nonWs

\* send_ping returned: the loop goes on, or breaks and the task ends
PlRet(t) ==
    /\ pc[t] = "pl_ret"
    /\ pc' = [pc EXCEPT ![t] = PlAfter(sf[t].res)]
    /\ UNCHANGED << took, maskPayload, wlock, rlock, sf, rf, rd, wire, wireTag,
                    sockBroken, ncalls, callLog, inb, peerClosed, peerMasks,
                    nIn, peerLog >>
    /\ UNCHANGED nonWs

SpecPingLoop ==
    InitWrite /\ [][\/ PlTick(1)
                    \/ PlRet(1)
                    \/ \E t \in Tasks \ {1} : SendCall(t)
                    \/ \E t \in Tasks :
                          \/ SfLock(t)
                          \/ SfWrite(t)
                          \/ SfWriteFail(t)
                          \/ SfFlush(t)]_vars


(***************************************************************************)
(* The peer: what arrives on the reader half.                              *)
(***************************************************************************)
\* the mask key of the frames a masking peer sends
PeerKey == << 55, 250, 33, 61 >>

\* payloads of inbound frames that start a message: "a", and the lead byte
\* of the two-byte UTF-8 sequence C3 A9
InPayloads == { << 97 >>, << 195 >> }

\* payloads of inbound continuation frames: empty, and the trail byte A9
ContPayloads == { << >>, << 169 >> }

\* the frames a peer may send: any FIN, any opcode (3 stands for the opcodes
\* RFC 6455 does not define); enc is how the length is written: "min" as
\* send_frame writes it, "u16"/"u64" the extended forms
PeerFrames ==
    [fin : BOOLEAN, op : {OpText, OpBinary}, payload : InPayloads,
     enc : {"min"}]
        \cup [fin : BOOLEAN, op : {OpCont}, payload : ContPayloads,
              enc : {"min"}]
        \cup [fin : BOOLEAN, op : {OpClose, OpPing, OpPong, 3},
              payload : {<< >>}, enc : {"min"}]
        \cup [fin : {TRUE}, op : {OpBinary}, payload : {<< 97 >>},
              enc : {"u16", "u64"}]

\* the bytes of a peer frame: send_frame's bytes when fin is set and the
\* length is minimal
PeerBytes(f, masked) ==
    LET maskBit == IF masked THEN 128 ELSE 0
        n == Len(f.payload)
        b0 == (IF f.fin THEN 128 ELSE 0) + f.op
        key == IF masked THEN PeerKey ELSE << >>
    IN  IF f.enc = "min"
        THEN << b0 >> \o Drop(SendFrameBytes(masked, f.op, f.payload, PeerKey), 1)
        ELSE IF f.enc = "u16"
        THEN << b0, 126 + maskBit >> \o U16BE(n) \o key
                \o SendFrameBody(masked, f.payload, PeerKey)
        ELSE << b0, 127 + maskBit >> \o U64BE(n) \o key
                \o SendFrameBody(masked, f.payload, PeerKey)

\* the bytes the task's pending read_exact asks for
Need(t) ==
    CASE pc[t] = "rf_hdr" -> 2
      [] pc[t] = "rf_ext" -> IF rf[t].len = 126 THEN 2 ELSE 8
      [] pc[t] = "rf_mask" -> 4
      [] pc[t] = "rf_pay" -> rf[t].len
      [] OTHER -> 0

\* the task waits in read_exact for bytes that have not arrived
Blocked(t) == rlock = t /\ Len(inb) < Need(t)

\* the peer sends its next frame (only when a reader waits for it: the order
\* of arrival and consumption is all a reader can observe)
PeerSendOf(frames, max) ==
    /\ ~peerClosed
    /\ nIn < max
    /\ \E t \in Tasks : Blocked(t)
    /\ \E f \in frames :
          /\ inb' = inb \o PeerBytes(f, peerMasks)
          /\ peerLog' = Append(peerLog, f)
    /\ nIn' = nIn + 1
    /\ UNCHANGED << took, maskPayload, wlock, rlock, pc, sf, rf, rd, wire, wireTag,
                    sockBroken, ncalls, callLog, peerClosed, peerMasks >>
    /\ UNCHANGED nonWs

PeerSend == PeerSendOf(PeerFrames, MaxInFrames)

\* the peer closes the connection: pending and later reads hit EOF
PeerClose ==
    /\ ~peerClosed
    /\ \E t \in Tasks : Blocked(t)
    /\ peerClosed' = TRUE
    /\ UNCHANGED << took, maskPayload, wlock, rlock, pc, sf, rf, rd, wire, wireTag,
                    sockBroken, ncalls, callLog, inb, peerMasks, nIn, peerLog >>
    /\ UNCHANGED nonWs

(***************************************************************************)
(* WebSocket::read_frame, step by step.                                    *)
(***************************************************************************)
\* self.reader.lock().await returns only when no other task holds the guard
ReaderFreeNoLock == TRUE
ReaderFree == rlock = 0

\* the record of one read_exact of task t that got its bytes
Took(t, part, fin, op) ==
    Append(took, [t |-> t, part |-> part, first |-> rf[t].ret = "rd_first",
                  fin |-> fin, op |-> op])

\* a caller enters read_frame; ret is where it returns to
StartReadFrame(t, ret) ==
    /\ pc' = [pc EXCEPT ![t] = "rf_lock"]
    /\ rf' = [rf EXCEPT ![t] = [NoRf EXCEPT !.ret = ret]]

RfLock(t) ==
    /\ pc[t] = "rf_lock"
    /\ ReaderFree
    /\ rlock' = t
    /\ pc' = [pc EXCEPT ![t] = "rf_hdr"]
    /\ UNCHANGED << took, maskPayload, wlock, sf, rf, rd, wire, wireTag, sockBroken,
                    ncalls, callLog, inb, peerClosed, peerMasks, nIn, peerLog >>
    /\ UNCHANGED nonWs

\* 1. the 2-byte header: fin, opcode, the mask bit, the 7-bit length
RfHeader(t) ==
    /\ pc[t] = "rf_hdr"
    /\ rlock = t
    /\ Len(inb) >= 2
    /\ LET fin == inb[1] >= 128
           opcode == inb[1] % 16
           masked == inb[2] >= 128
           len7 == inb[2] % 128
       IN  /\ rf' = [rf EXCEPT ![t].fin = fin, ![t].op = opcode,
                               ![t].masked = masked, ![t].len = len7,
                               ![t].used = 2]
           /\ rd' = [rd EXCEPT ![t].unmasked = @ \/ ~masked]
           /\ pc' = [pc EXCEPT ![t] =
                        IF len7 >= 126 THEN "rf_ext" ELSE "rf_chk"]
    /\ inb' = Drop(inb, 2)
    /\ took' = Took(t, "hdr", inb[1] >= 128, inb[1] % 16)
    /\ UNCHANGED << maskPayload, wlock, rlock, sf, wire, wireTag, sockBroken,
                    ncalls, callLog, peerClosed, peerMasks, nIn, peerLog >>
    /\ UNCHANGED nonWs

\* 2. the extended payload length: u16 after 126, u64 after 127
RfExtLen(t) ==
    /\ pc[t] = "rf_ext"
    /\ rlock = t
    /\ Len(inb) >= Need(t)
    /\ rf' = [rf EXCEPT ![t].len = FromBE(Take(inb, Need(t))),
                        ![t].used = @ + Need(t)]
    /\ inb' = Drop(inb, Need(t))
    /\ pc' = [pc EXCEPT ![t] = "rf_chk"]
    /\ took' = Took(t, "ext", rf[t].fin, rf[t].op)
    /\ UNCHANGED << maskPayload, wlock, rlock, sf, rd, wire, wireTag,
                    sockBroken, ncalls, callLog, peerClosed, peerMasks, nIn,
                    peerLog >>
    /\ UNCHANGED nonWs

\* 3. `if !masked && !self.mask_payload`: a server role rejects unmasked frames
RejectUnmaskedNever(masked) == FALSE
RejectUnmasked(masked) == ~masked /\ ~maskPayload

\* the check itself: close().await.ok() on rejection, else on to the mask key
RfMaskCheck(t) ==
    /\ pc[t] = "rf_chk"
    /\ rlock = t
    /\ IF RejectUnmasked(rf[t].masked)
       THEN /\ StartSend(t, OpClose, << >>, "rf_bad")
            /\ UNCHANGED rf
       ELSE /\ pc' = [pc EXCEPT ![t] = "rf_mask"]
            /\ UNCHANGED << sf, rf, ncalls, callLog >>
    /\ UNCHANGED << took, maskPayload, wlock, rlock, rd, wire, wireTag, sockBroken,
                    inb, peerClosed, peerMasks, nIn, peerLog >>
    /\ UNCHANGED nonWs

\* return Err(InvalidFrame("Received unmasked frame from client"))
RfBad(t) ==
    /\ pc[t] = "rf_bad"
    /\ rlock = t
    /\ rlock' = 0
    /\ rf' = [rf EXCEPT ![t].res = "InvalidFrame"]
    /\ pc' = [pc EXCEPT ![t] = rf[t].ret]
    /\ UNCHANGED << took, maskPayload, wlock, sf, rd, wire, wireTag, sockBroken,
                    ncalls, callLog, inb, peerClosed, peerMasks, nIn, peerLog >>
    /\ UNCHANGED nonWs

\* the mask key: read_exact(&mut mask) of 4 bytes, whatever the mask bit says
RfMask(t) ==
    /\ pc[t] = "rf_mask"
    /\ rlock = t
    /\ Len(inb) >= 4
    /\ rf' = [rf EXCEPT ![t].mask = Take(inb, 4), ![t].used = @ + 4]
    /\ inb' = Drop(inb, 4)
    /\ pc' = [pc EXCEPT ![t] = "rf_pay"]
    /\ took' = Took(t, "mask", rf[t].fin, rf[t].op)
    /\ UNCHANGED << maskPayload, wlock, rlock, sf, rd, wire, wireTag,
                    sockBroken, ncalls, callLog, peerClosed, peerMasks, nIn,
                    peerLog >>
    /\ UNCHANGED nonWs

\* 4. the payload, XOR-ed with the mask; Ok((fin, opcode, payload))
RfPayload(t) ==
    /\ pc[t] = "rf_pay"
    /\ rlock = t
    /\ Len(inb) >= rf[t].len
    /\ rf' = [rf EXCEPT ![t].payload = XorMask(Take(inb, rf[t].len), rf[t].mask),
                        ![t].used = @ + rf[t].len,
                        ![t].res = "Ok"]
    /\ inb' = Drop(inb, rf[t].len)
    /\ rlock' = 0
    /\ pc' = [pc EXCEPT ![t] = rf[t].ret]
    /\ took' = Took(t, "pay", rf[t].fin, rf[t].op)
    /\ UNCHANGED << maskPayload, wlock, sf, rd, wire, wireTag, sockBroken,
                    ncalls, callLog, peerClosed, peerMasks, nIn, peerLog >>
    /\ UNCHANGED nonWs

\* read_exact hits EOF before the bytes it needs: Err(Io) through `?`
RfEof(t) ==
    /\ pc[t] \in {"rf_hdr", "rf_ext", "rf_mask", "rf_pay"}
    /\ Blocked(t)
    /\ peerClosed
    /\ inb' = << >>
    /\ rlock' = 0
    /\ rf' = [rf EXCEPT ![t].res = "Io", ![t].used = @ + Len(inb)]
    /\ pc' = [pc EXCEPT ![t] = rf[t].ret]
    /\ UNCHANGED << took, maskPayload, wlock, sf, rd, wire, wireTag, sockBroken,
                    ncalls, callLog, peerClosed, peerMasks, nIn, peerLog >>
    /\ UNCHANGED nonWs

(***************************************************************************)
(* WebSocket::read: reassembly and the control-frame policy.               *)
(***************************************************************************)
Readers == {1}

\* read returns: the result is kept until the task's next call
Return(t, res, val) ==
    /\ rd' = [rd EXCEPT ![t].res = res, ![t].val = val]
    /\ pc' = [pc EXCEPT ![t] = "done_read"]

\* `let (fin, opcode, mut payload) = self.read_frame().await?;`
\* The record of what was observed (the peer's frames, the bytes written and
\* the calls that wrote them) starts afresh with each call of read.
ReadCall(t) ==
    /\ pc[t] \in {"idle", "done_read"}
    /\ rd' = [rd EXCEPT ![t] = [NoRd EXCEPT !.aligned = (inb = << >>)]]
    /\ peerLog' = << >>
    /\ wire' = << >>
    /\ wireTag' = << >>
    /\ callLog' = << >>
    /\ ncalls' = 0
    /\ sf' = [sf EXCEPT ![t] = NoSf]
    /\ took' = << >>
    /\ StartReadFrame(t, "rd_first")
    /\ UNCHANGED << maskPayload, wlock, rlock, sockBroken, inb, peerClosed,
                    peerMasks, nIn >>
    /\ UNCHANGED nonWs

\* the first frame is back: `?`, then `if !fin` enters the continuation loop
RdFirst(t) ==
    /\ pc[t] = "rd_first"
    /\ IF rf[t].res # "Ok"
       THEN /\ Return(t, rf[t].res, << >>)
            /\ UNCHANGED rf
       ELSE IF ~rf[t].fin
       THEN /\ rd' = [rd EXCEPT ![t].op = rf[t].op, ![t].payload = rf[t].payload]
            /\ StartReadFrame(t, "rd_loop")
       ELSE /\ rd' = [rd EXCEPT ![t].op = rf[t].op, ![t].payload = rf[t].payload]
            /\ pc' = [pc EXCEPT ![t] = "rd_match"]
            /\ UNCHANGED rf
    /\ UNCHANGED << took, maskPayload, wlock, rlock, sf, wire, wireTag, sockBroken,
                    ncalls, callLog, inb, peerClosed, peerMasks, nIn, peerLog >>
    /\ UNCHANGED nonWs

\* what the loop body does with the payload p of a continuation frame
LoopAppend(payload, p) == payload \o p

\* `while let (fin, o, mut p) = self.read_frame().await? && !fin { match o .. }`
\* a frame with fin set ends the loop before the body runs
RdLoop(t) ==
    /\ pc[t] = "rd_loop"
    /\ IF rf[t].res # "Ok"
       THEN /\ Return(t, rf[t].res, << >>)
            /\ UNCHANGED << sf, rf, ncalls, callLog >>
       ELSE IF rf[t].fin
       THEN /\ pc' = [pc EXCEPT ![t] = "rd_match"]
            /\ UNCHANGED << sf, rf, rd, ncalls, callLog >>
       ELSE IF rf[t].op = OpCont
       THEN /\ rd' = [rd EXCEPT ![t].payload = LoopAppend(@, rf[t].payload)]
            /\ StartReadFrame(t, "rd_loop")
            /\ UNCHANGED << sf, ncalls, callLog >>
       ELSE IF rf[t].op = OpClose
       THEN /\ StartSend(t, OpClose, << >>, "rd_cont")
            /\ UNCHANGED << rf, rd >>
       ELSE IF rf[t].op = OpPing
       THEN /\ StartSend(t, OpPong, << >>, "rd_cont")
            /\ UNCHANGED << rf, rd >>
       ELSE IF rf[t].op = OpPong
       THEN /\ StartReadFrame(t, "rd_loop")
            /\ UNCHANGED << sf, rd, ncalls, callLog >>
       ELSE /\ StartSend(t, OpClose, << >>, "rd_bad")
            /\ UNCHANGED << rf, rd >>
    /\ UNCHANGED << took, maskPayload, wlock, rlock, wire, wireTag, sockBroken, inb,
                    peerClosed, peerMasks, nIn, peerLog >>
    /\ UNCHANGED nonWs

\* close().await.ok() / send_pong().await.ok() in the loop body returned:
\* the loop reads the next frame
RdCont(t) ==
    /\ pc[t] = "rd_cont"
    /\ StartReadFrame(t, "rd_loop")
    /\ UNCHANGED << took, maskPayload, wlock, rlock, sf, rd, wire, wireTag,
                    sockBroken, ncalls, callLog, inb, peerClosed, peerMasks,
                    nIn, peerLog >>
    /\ UNCHANGED nonWs

\* Err(InvalidFrame("Unknown opcode")) after the close frame was tried
RdBad(t) ==
    /\ pc[t] = "rd_bad"
    /\ Return(t, "InvalidFrame", << >>)
    /\ UNCHANGED << took, maskPayload, wlock, rlock, sf, rf, wire, wireTag,
                    sockBroken, ncalls, callLog, inb, peerClosed, peerMasks,
                    nIn, peerLog >>
    /\ UNCHANGED nonWs

\* the final `match opcode` for Text and Binary: the Frame or the error
DataResult(opcode, payload) ==
    IF opcode = OpText
    THEN IF Utf8Valid(payload) THEN << "Text", payload >> ELSE << "Utf8", << >> >>
    ELSE << "Binary", payload >>

\* `match opcode { 0x8 .. 0x9 .. 0xA .. 0x1 .. 0x2 .. _ }` on the first opcode
RdMatch(t) ==
    /\ pc[t] = "rd_match"
    /\ IF rd[t].op = OpClose
       THEN /\ StartSend(t, OpClose, << >>, "rd_ret")
            /\ rd' = [rd EXCEPT ![t].pending = "Close"]
       ELSE IF rd[t].op = OpPing
       THEN /\ StartSend(t, OpPong, << >>, "rd_ret")
            /\ rd' = [rd EXCEPT ![t].pending = "Ping"]
       ELSE IF rd[t].op = OpPong
       THEN /\ Return(t, "Pong", << >>)
            /\ UNCHANGED << sf, ncalls, callLog >>
       ELSE IF rd[t].op \in {OpText, OpBinary}
       THEN /\ Return(t, DataResult(rd[t].op, rd[t].payload)[1],
                         DataResult(rd[t].op, rd[t].payload)[2])
            /\ UNCHANGED << sf, ncalls, callLog >>
       ELSE /\ StartSend(t, OpClose, << >>, "rd_bad")
            /\ UNCHANGED rd
    /\ UNCHANGED << took, maskPayload, wlock, rlock, rf, wire, wireTag, sockBroken,
                    inb, peerClosed, peerMasks, nIn, peerLog >>
    /\ UNCHANGED nonWs

\* Ok(Frame::Close) / Ok(Frame::Ping) once the reply was tried
RdRet(t) ==
    /\ pc[t] = "rd_ret"
    /\ Return(t, rd[t].pending, << >>)
    /\ UNCHANGED << took, maskPayload, wlock, rlock, sf, rf, wire, wireTag,
                    sockBroken, ncalls, callLog, inb, peerClosed, peerMasks,
                    nIn, peerLog >>
    /\ UNCHANGED nonWs

InitRead ==
    /\ InitWs
    /\ InitHsIdle
    /\ InitCcIdle
    /\ InitSeIdle

NextRead ==
    \/ PeerSend
    \/ PeerClose
    \/ \E t \in Readers :
          \/ ReadCall(t)
          \/ RfLock(t)
          \/ RfHeader(t)
          \/ RfExtLen(t)
          \/ RfMaskCheck(t)
          \/ RfBad(t)
          \/ RfMask(t)
          \/ RfPayload(t)
          \/ RfEof(t)
          \/ RdFirst(t)
          \/ RdLoop(t)
          \/ RdCont(t)
          \/ RdBad(t)
          \/ RdMatch(t)
          \/ RdRet(t)
          \/ SfLock(t)
          \/ SfWrite(t)
          \/ SfWriteFail(t)
          \/ SfFlush(t)

SpecRead == InitRead /\ [][NextRead]_vars

(***************************************************************************)
(* Two tasks call read() on clones of one connection.  The record of what  *)
(* was taken from the stream is kept across the calls.                     *)
(***************************************************************************)
ConcReaders == {1, 2}

\* what the peer sends here: a message in two fragments, a ping, and a
\* frame with an extended length
ConcFrames ==
    { [fin |-> FALSE, op |-> OpText, payload |-> << 97 >>, enc |-> "min"],
      [fin |-> TRUE, op |-> OpCont, payload |-> << 169 >>, enc |-> "min"],
      [fin |-> FALSE, op |-> OpPing, payload |-> << >>, enc |-> "min"],
      [fin |-> TRUE, op |-> OpBinary, payload |-> << 97 >>, enc |-> "u16"] }

ReadCallConc(t) ==
    /\ pc[t] \in {"idle", "done_read"}
    /\ rd' = [rd EXCEPT ![t] = [NoRd EXCEPT !.aligned = (inb = << >>)]]
    /\ sf' = [sf EXCEPT ![t] = NoSf]
    /\ StartReadFrame(t, "rd_first")
    /\ UNCHANGED << took, maskPayload, wlock, rlock, wire, wireTag, sockBroken,
                    ncalls, callLog, inb, peerClosed, peerMasks, nIn, peerLog >>
    /\ UNCHANGED nonWs

NextReadConc ==
    \/ PeerSendOf(ConcFrames, MaxConcFrames)
    \/ \E t \in ConcReaders :
          \/ ReadCallConc(t)
          \/ RfLock(t)
          \/ RfHeader(t)
          \/ RfExtLen(t)
          \/ RfMaskCheck(t)
          \/ RfBad(t)
          \/ RfMask(t)
          \/ RfPayload(t)
          \/ RdFirst(t)
          \/ RdLoop(t)
          \/ RdCont(t)
          \/ RdBad(t)
          \/ RdMatch(t)
          \/ RdRet(t)
          \/ SfLock(t)
          \/ SfWrite(t)
          \/ SfWriteFail(t)
          \/ SfFlush(t)

\* the connection is a server's (accept: mask_payload = false)
InitReadConc ==
    /\ InitRead
    /\ ~maskPayload

SpecReadConc == InitReadConc /\ [][NextReadConc]_vars

\* tasks that call read() and tasks that keep sending pings, on one
\* connection; the peer sends whole messages, masked or not
SpecLocks ==
    InitReadConc
        /\ [][\/ PeerSendOf({f \in ConcFrames : f.op \in {OpPing, OpBinary}},
                            MaxLockFrames)
              \/ \E t \in ConcReaders :
                    \/ ReadCallConc(t)
                    \/ RfLock(t)
                    \/ RfHeader(t)
                    \/ RfExtLen(t)
                    \/ RfMaskCheck(t)
                    \/ RfBad(t)
                    \/ RfMask(t)
                    \/ RfPayload(t)
                    \/ RdFirst(t)
                    \/ RdLoop(t)
                    \/ RdCont(t)
                    \/ RdMatch(t)
                    \/ RdRet(t)
                    \/ SfLock(t)
                    \/ SfWrite(t)
                    \/ SfWriteFail(t)
                    \/ SfFlush(t)
                    \/ PlTick(t)
                    \/ PlRet(t)]_vars

(***************************************************************************)
(* HTTP lines of the opening handshake.                                    *)
(*   [t |-> "req", method]   a request line, e.g. "GET / HTTP/1.1\r\n"     *)
(*   [t |-> "status", code]  a status line, e.g. "HTTP/1.1 101 ...\r\n"    *)
(*   [t |-> "hdr", k, v]     a header line "k:v\r\n", k and v as written   *)
(*   [t |-> "crlf"]          the empty line "\r\n"                        *)
(*   [t |-> "lf"]            an empty line ended by a bare "\n"            *)
(* The end of the sequence is the end of the stream: read_line returns     *)
(* Ok(0) and leaves the line empty.                                        *)
(***************************************************************************)
EofLine == [t |-> "eof"]
Hdr(k, v) == [t |-> "hdr", k |-> k, v |-> v]

\* reader.read_line(&mut line): the next line, or the empty line at EOF
ReadLine(lines) == IF lines = << >> THEN EofLine ELSE Head(lines)
AfterLine(lines) == IF lines = << >> THEN << >> ELSE Tail(lines)

\* k.trim().to_lowercase() on the header names that occur
LowerName(k) ==
    CASE k \in {"Upgrade", "upgrade"} -> "upgrade"
      [] k \in {"Connection", "connection"} -> "connection"
      [] k \in {"Sec-WebSocket-Key", "sec-websocket-key", " Sec-WebSocket-Key "}
            -> "sec-websocket-key"
      [] k \in {"Sec-WebSocket-Version"} -> "sec-websocket-version"
      [] k \in {"Sec-WebSocket-Accept", "sec-websocket-accept"}
            -> "sec-websocket-accept"
      [] OTHER -> k

\* v.trim() on the header values that occur
Trim(v) ==
    CASE v = " websocket" -> "websocket"
      [] v = " WebSocket" -> "WebSocket"
      [] v = " h2c" -> "h2c"
      [] v = " Upgrade" -> "Upgrade"
      [] v = " keep-alive, Upgrade" -> "keep-alive, Upgrade"
      [] v = " close" -> "close"
      [] v = " k1" -> "k1"
      [] v \in {" k2", " k2 "} -> "k2"
      [] v = " accept-k1" -> "accept-k1"
      [] v = " accept-k2" -> "accept-k2"
      [] v = " accept-other" -> "accept-other"
      [] v = " bogus" -> "bogus"
      [] v = " 13" -> "13"
      [] v = " 8" -> "8"
      [] OTHER -> v

\* v.eq_ignore_ascii_case("websocket")
IsWebsocket(v) == v \in {"websocket", "WebSocket"}

HeaderNames == {"upgrade", "connection", "sec-websocket-key",
                "sec-websocket-version"}

NoHeaders == [n \in HeaderNames |-> "absent"]

\* headers.insert(k.trim().to_lowercase(), v.trim().to_string())
HeaderInsert(h, line) ==
    IF LowerName(line.k) \in HeaderNames
    THEN [h EXCEPT ![LowerName(line.k)] = Trim(line.v)]
    ELSE h

\* base64(SHA1(key ++ "258EAFA5-E914-47DA-95CA-C5AB0DC85B11")), as one
\* injective function of the key
AcceptOf(key) ==
    CASE key = "k1" -> "accept-k1"
      [] key = "k2" -> "accept-k2"
      [] OTHER -> "accept-other"

\* a value as format!("{}: {}\r\n", name, value) puts it after the colon
Pad(v) ==
    CASE v = "k1" -> " k1"
      [] v = "k2" -> " k2"
      [] v = "accept-k1" -> " accept-k1"
      [] v = "accept-k2" -> " accept-k2"
      [] v = "accept-other" -> " accept-other"
      [] OTHER -> v

(***************************************************************************)
(* The requests clients send to the listener.                              *)
(***************************************************************************)
Opt(k, v) == IF v = "absent" THEN << >> ELSE << Hdr(k, v) >>

EndOf(e) ==
    CASE e = "crlf" -> << [t |-> "crlf"] >>
      [] e = "lf" -> << [t |-> "lf"] >>
      [] OTHER -> << >>

GetRequest(up, conn, key, ver, e) ==
    << [t |-> "req", method |-> "GET"] >>
        \o Opt("Upgrade", up) \o Opt("Connection", conn)
        \o Opt("Sec-WebSocket-Key", key) \o Opt("Sec-WebSocket-Version", ver)
        \o EndOf(e)

Requests ==
    { << [t |-> "req", method |-> m] >> \o EndOf("crlf") : m \in {"HEAD", "POST"} }
        \cup { << >> }
        \cup { GetRequest(up, conn, key, ver, e) :
                  up \in {"absent", " websocket", " WebSocket", " h2c"},
                  conn \in {"absent", " Upgrade", " keep-alive, Upgrade", " close"},
                  key \in {"absent", " k1", " k2 "},
                  ver \in {"absent", " 13", " 8"},
                  e \in {"crlf", "lf", "eof"} }

(***************************************************************************)
(* handle_websocket_handshake (src/src/handshake.rs), step by step.        *)
(***************************************************************************)
\* `headers.get("upgrade").map(|v| !v.eq_ignore_ascii_case("websocket"))
\*      .unwrap_or(true)`: not a WebSocket upgrade
NotUpgrade(h) == h["upgrade"] = "absent" \/ ~IsWebsocket(h["upgrade"])

\* what the handshake requires of an upgrade request before it answers 101:
\* `headers.get("sec-websocket-key").ok_or_else(..)?` and nothing else
UpgradeAccepted(h) == h["sec-websocket-key"] # "absent"

\* the response to an upgrade request
UpgradeReply(h) == [code |-> "101", accept |-> AcceptOf(h["sec-websocket-key"])]

\* the ws::Error a result reaches the caller as: an io::Error of whatever
\* kind goes through From<std::io::Error> into Io
Surfaced(res) ==
    IF res \in {"Err:InvalidData:Invalid HTTP method",
                "Err:InvalidData:Missing key", "Err:transport", "Err:Io"}
    THEN "Io"
    ELSE IF res \in {"Err:HandshakeFailed:Expected 101",
                     "Err:HandshakeFailed:Sec-WebSocket-Accept mismatch"}
    THEN "HandshakeFailed"
    ELSE "none"

\* the outcome once the headers are parsed: the bytes written, the result
HsOutcome(h) ==
    IF NotUpgrade(h)
    THEN [resp |-> [code |-> "200-OK", accept |-> "none"], res |-> "Ok"]
    ELSE IF ~UpgradeAccepted(h)
    THEN [resp |-> NoResp, res |-> "Err:InvalidData:Missing key"]
    ELSE [resp |-> UpgradeReply(h), res |-> "Ok"]

\* read_line of the request line; HEAD is answered at once, a method other
\* than GET is an error
HsRequestLine ==
    /\ hsPc = "hs_reqline"
    /\ LET line == ReadLine(stream)
       IN  IF line.t = "req" /\ line.method = "HEAD"
           THEN /\ hsResp' = [code |-> "200-empty", accept |-> "none"]
                /\ hsRes' = "Ok"
                /\ hsPc' = "hs_done"
           ELSE IF ~(line.t = "req" /\ line.method = "GET")
           THEN /\ hsRes' = "Err:InvalidData:Invalid HTTP method"
                /\ hsPc' = "hs_done"
                /\ UNCHANGED hsResp
           ELSE /\ hsPc' = "hs_headers"
                /\ UNCHANGED << hsResp, hsRes >>
    /\ stream' = AfterLine(stream)
    /\ headers' = NoHeaders
    /\ UNCHANGED << curReq, loopRes, nConn, sess, nSess, nRecv, nSpawn >>
    /\ UNCHANGED << wsvars, ccvars, sevars >>

\* one turn of the header loop: `if line == "\r\n" { break }`, else the line
\* is split at ':' and inserted; any other line (a bare "\n", the empty line
\* read_line leaves at EOF) is skipped and the loop reads again
HsHeaderLine ==
    /\ hsPc = "hs_headers"
    /\ LET line == ReadLine(stream)
       IN  /\ hsPc' = IF line.t = "crlf" THEN "hs_decide" ELSE "hs_headers"
           /\ headers' = IF line.t = "hdr" THEN HeaderInsert(headers, line)
                         ELSE headers
    /\ stream' = AfterLine(stream)
    /\ UNCHANGED << curReq, hsResp, hsRes, loopRes, nConn, sess, nSess, nRecv,
                    nSpawn >>
    /\ UNCHANGED << wsvars, ccvars, sevars >>

\* after the loop: the plain 200 for a GET that is no upgrade, the error for a
\* missing key, or the 101 response
HsDecide ==
    /\ hsPc = "hs_decide"
    /\ hsResp' = HsOutcome(headers).resp
    /\ hsRes' = HsOutcome(headers).res
    /\ hsPc' = "hs_done"
    /\ UNCHANGED << stream, curReq, headers, loopRes, nConn, sess, nSess,
                    nRecv, nSpawn >>
    /\ UNCHANGED << wsvars, ccvars, sevars >>

\* a read_line or write_all on the stream fails: `?` returns the io::Error
HsIoFault ==
    /\ hsPc \in {"hs_reqline", "hs_headers", "hs_decide"}
    /\ hsRes' = "Err:transport"
    /\ hsPc' = "hs_done"
    /\ UNCHANGED << stream, curReq, headers, hsResp, loopRes, nConn, sess,
                    nSess, nRecv, nSpawn >>
    /\ UNCHANGED << wsvars, ccvars, sevars >>

(***************************************************************************)
(* SessionServer::accept and session_loop (src/src/server.rs).             *)
(***************************************************************************)
\* self.listener.accept().await succeeds: a client's stream
SlAccept ==
    /\ hsPc = "accept"
    /\ nConn < MaxConns
    /\ \E r \in Requests :
          /\ stream' = r
          /\ curReq' = r
    /\ nConn' = nConn + 1
    /\ hsPc' = "hs_reqline"
    /\ hsResp' = NoResp
    /\ hsRes' = "none"
    /\ sess' = << >>
    /\ headers' = NoHeaders
    /\ UNCHANGED << loopRes, nSess, nRecv, nSpawn >>
    /\ UNCHANGED << wsvars, ccvars, sevars >>

\* self.listener.accept().await fails: accept's `?`, then session_loop's `?`
SlAcceptFail ==
    /\ hsPc = "accept"
    /\ hsPc' = "returned"
    /\ loopRes' = "Err:Io:listener"
    /\ UNCHANGED << stream, curReq, headers, hsResp, hsRes, nConn, sess,
                    nSess, nRecv, nSpawn >>
    /\ UNCHANGED << wsvars, ccvars, sevars >>

\* handshake(stream): `handle_websocket_handshake(&mut stream).await?`, then
\* the stream is split and Ok(Self { .., mask_payload: false }) whatever the
\* handshake answered; accept wraps it with Session::from_ws.  An error goes
\* up through accept's `?` and session_loop's `?`: session_loop returns it
HsReturn ==
    /\ hsPc = "hs_done"
    /\ IF hsRes = "Ok"
       THEN /\ sess' = << HandshakeWs >>
            /\ nSess' = nSess + 1
            /\ hsPc' = "start_receiver"
            /\ UNCHANGED loopRes
       ELSE /\ hsPc' = "returned"
            /\ loopRes' = "Err:Io:handshake"
            /\ UNCHANGED << sess, nSess >>
    /\ UNCHANGED << stream, curReq, headers, hsResp, hsRes, nConn, nRecv,
                    nSpawn >>
    /\ UNCHANGED << wsvars, ccvars, sevars >>

\* session.start_receiver()
SlStartReceiverSkipped ==
    /\ hsPc = "start_receiver"
    /\ hsPc' = "spawn"
    /\ UNCHANGED << stream, curReq, headers, hsResp, hsRes, loopRes, nConn,
                    sess, nSess, nRecv, nSpawn >>
    /\ UNCHANGED << wsvars, ccvars, sevars >>
SlStartReceiver ==
    /\ hsPc = "start_receiver"
    /\ nRecv' = nRecv + 1
    /\ hsPc' = "spawn"
    /\ UNCHANGED << stream, curReq, headers, hsResp, hsRes, loopRes, nConn,
                    sess, nSess, nSpawn >>
    /\ UNCHANGED << wsvars, ccvars, sevars >>

\* tokio::spawn(conn_handler(session, addr)); the loop goes on to accept
SlSpawn ==
    /\ hsPc = "spawn"
    /\ nSpawn' = nSpawn + 1
    /\ hsPc' = "accept"
    /\ UNCHANGED << stream, curReq, headers, hsResp, hsRes, loopRes, nConn,
                    sess, nSess, nRecv >>
    /\ UNCHANGED << wsvars, ccvars, sevars >>

InitWsIdle ==
    /\ InitWs
    /\ maskPayload = FALSE
    /\ peerMasks = TRUE

InitHandshake ==
    /\ InitWsIdle
    /\ InitHsIdle
    /\ InitCcIdle
    /\ InitSeIdle

NextHandshake ==
    \/ SlAccept
    \/ SlAcceptFail
    \/ HsRequestLine
    \/ HsHeaderLine
    \/ HsDecide
    \/ HsIoFault
    \/ HsReturn
    \/ SlStartReceiver
    \/ SlSpawn

SpecHandshake == InitHandshake /\ [][NextHandshake]_vars

\* the handshake task keeps being polled: each of its steps is taken when it
\* can change the state.  A transport fault is never owed.
SpecHandshakeFair ==
    /\ InitHandshake
    /\ [][NextHandshake]_vars
    /\ WF_vars(HsRequestLine)
    /\ WF_vars(HsHeaderLine)
    /\ WF_vars(HsDecide)

(***************************************************************************)
(* connect (src/src/handshake.rs): the client side of the handshake.  The  *)
(* client talks either to this crate's server handshake, whose steps run   *)
(* on the request connect wrote, or to a foreign server that may answer    *)
(* anything.                                                               *)
(***************************************************************************)
Keys == {"k1", "k2"}

Status(code) == [t |-> "status", code |-> code]

\* the request connect writes for its key
ClientRequest(key) ==
    << [t |-> "req", method |-> "GET"], Hdr("Host", " addr"),
       Hdr("Upgrade", " websocket"), Hdr("Connection", " Upgrade"),
       Hdr("Sec-WebSocket-Key", Pad(key)), Hdr("Sec-WebSocket-Version", " 13"),
       [t |-> "crlf"] >>

\* the bytes the server handshake wrote, as the lines the client reads; a
\* failed handshake wrote nothing and dropped the stream
ReplyLines(resp) ==
    CASE resp.code = "101" ->
            << Status("101"), Hdr("Upgrade", " websocket"),
               Hdr("Connection", " Upgrade"),
               Hdr("Sec-WebSocket-Accept", Pad(resp.accept)), [t |-> "crlf"] >>
      [] resp.code \in {"200-OK", "200-empty"} ->
            << Status("200"), Hdr("Content-Length", " n"), [t |-> "crlf"] >>
      [] OTHER -> << >>

\* what a foreign server may answer
ForeignReplies ==
    { << >> } \cup
    { << Status(code) >> \o Opt(name, acc) \o EndOf(e) :
          code \in {"101", "200", "HTTP/1.0 101"},
          name \in {"Sec-WebSocket-Accept", "sec-websocket-accept"},
          acc \in {"absent", " accept-k1", " accept-k2", " bogus"},
          e \in {"crlf", "lf", "eof"} }

\* status_line.starts_with("HTTP/1.1 101")
Is101(line) == line.t = "status" /\ line.code = "101"

\* line.trim_end().is_empty(): "\r\n", "\n", or nothing at EOF
IsBlank(line) == line.t \in {"crlf", "lf", "eof"}

\* `sec_accept.as_deref() != Some(expected.as_str())` is false
AcceptMatchesAny(got, key) == got # "absent"
AcceptMatches(got, key) == got = AcceptOf(key)

\* TcpStream::connect, the random key, the request written and flushed
CcStart ==
    /\ ccPc = "idle"
    /\ \E key \in Keys, peer \in {"ours", "foreign"} :
          /\ ccKey' = key
          /\ ccPeer' = peer
          /\ IF peer = "ours"
             THEN /\ hsPc' = "hs_reqline"
                  /\ stream' = ClientRequest(key)
                  /\ curReq' = ClientRequest(key)
             ELSE UNCHANGED << hsPc, stream, curReq >>
    /\ ccPc' = "sent"
    /\ UNCHANGED << ccReply, ccStream, ccStatus, ccAccept, ccRes, ccWs >>
    /\ UNCHANGED << headers, hsResp, hsRes, loopRes, nConn, sess, nSess,
                    nRecv, nSpawn >>
    /\ UNCHANGED << wsvars, sevars >>

\* the server's answer reaches the client
CcReply ==
    /\ ccPc = "sent"
    /\ \/ /\ ccPeer = "ours"
          /\ hsPc = "hs_done"
          /\ ccReply' = ReplyLines(hsResp)
       \/ /\ ccPeer = "foreign"
          /\ \E r \in ForeignReplies : ccReply' = r
    /\ ccStream' = ccReply'
    /\ ccPc' = "status"
    /\ UNCHANGED << ccKey, ccStatus, ccAccept, ccRes, ccWs, ccPeer >>
    /\ UNCHANGED << wsvars, hsvars, sevars >>

\* read_line of the status line and the check for 101
CcStatusLine ==
    /\ ccPc = "status"
    /\ LET line == ReadLine(ccStream)
       IN  /\ ccStatus' = Is101(line)
           /\ IF Is101(line)
              THEN /\ ccPc' = "headers"
                   /\ UNCHANGED ccRes
              ELSE /\ ccPc' = "done"
                   /\ ccRes' = "Err:HandshakeFailed:Expected 101"
    /\ ccStream' = AfterLine(ccStream)
    /\ UNCHANGED << ccKey, ccReply, ccAccept, ccWs, ccPeer >>
    /\ UNCHANGED << wsvars, hsvars, sevars >>

\* one turn of the header loop: a blank line ends it, a line named
\* sec-websocket-accept (any case) sets sec_accept to its trimmed value
CcHeaderLine ==
    /\ ccPc = "headers"
    /\ LET line == ReadLine(ccStream)
       IN  /\ ccPc' = IF IsBlank(line) THEN "verify" ELSE "headers"
           /\ ccAccept' = IF line.t = "hdr"
                             /\ LowerName(line.k) = "sec-websocket-accept"
                          THEN Trim(line.v) ELSE ccAccept
    /\ ccStream' = AfterLine(ccStream)
    /\ UNCHANGED << ccKey, ccReply, ccStatus, ccRes, ccWs, ccPeer >>
    /\ UNCHANGED << wsvars, hsvars, sevars >>

\* the accept value is compared with the one computed from the key sent;
\* on a match the stream is split into Self { .., mask_payload: true }
CcVerify ==
    /\ ccPc = "verify"
    /\ IF AcceptMatches(ccAccept, ccKey)
       THEN /\ ccRes' = "Ok"
            /\ ccWs' = << ConnectWs >>
       ELSE /\ ccRes' = "Err:HandshakeFailed:Sec-WebSocket-Accept mismatch"
            /\ UNCHANGED ccWs
    /\ ccPc' = "done"
    /\ UNCHANGED << ccKey, ccReply, ccStream, ccStatus, ccAccept, ccPeer >>
    /\ UNCHANGED << wsvars, hsvars, sevars >>

\* a read_line on the stream fails: `?` returns the io error
CcIoFault ==
    /\ ccPc \in {"status", "headers"}
    /\ ccRes' = "Err:Io"
    /\ ccPc' = "done"
    /\ UNCHANGED << ccKey, ccReply, ccStream, ccStatus, ccAccept, ccWs, ccPeer >>
    /\ UNCHANGED << wsvars, hsvars, sevars >>

InitConnect ==
    /\ InitWsIdle
    /\ InitHsIdle
    /\ InitCcIdle
    /\ InitSeIdle

NextConnect ==
    \/ CcStart
    \/ HsRequestLine
    \/ HsHeaderLine
    \/ HsDecide
    \/ HsIoFault
    \/ CcReply
    \/ CcStatusLine
    \/ CcHeaderLine
    \/ CcVerify
    \/ CcIoFault

SpecConnect == InitConnect /\ [][NextConnect]_vars

(***************************************************************************)
(* Session::request and the receiver task, after spec.md section 4.4       *)
(* (the Session of server.rs is not among the sources).  A response or     *)
(* error message is [id, is_error, payload]; the peer stamps each payload  *)
(* with the id it answers, so that a payload handed to the wrong caller    *)
(* shows.                                                                  *)
(***************************************************************************)
\* the 32-bit counter as its two 16-bit halves << high, low >>
Half == 65536

\* "incremented pre-use", wrapping at 2^32
NextIdLowOnly(counter) == << counter[1], (counter[2] + 1) % Half >>
NextId(counter) ==
    IF counter[2] + 1 < Half THEN << counter[1], counter[2] + 1 >>
    ELSE << (counter[1] + 1) % Half, 0 >>

Msg(id, isErr) == [id |-> id, is_error |-> isErr, payload |-> id]

\* "discarding those whose id /= own id, until a match"
IdMatchesAny(m, id) == TRUE
IdMatches(m, id) == m.id = id

\* step 1: allocate the id under the counter's mutex
RqAlloc(t) ==
    /\ rq[t].pc \in {"idle", "returned"}
    /\ nReq < MaxRequests
    /\ nReq' = nReq + 1
    /\ idCounter' = NextId(idCounter)
    /\ emitted' = Append(emitted, [at |-> idCounter, id |-> NextId(idCounter)])
    /\ rq' = [rq EXCEPT ![t] = [NoRq EXCEPT !.pc = "allocated",
                                             !.id = NextId(idCounter)]]
    /\ UNCHANGED << sub, peerGot, inbox, replies, dp >>
    /\ UNCHANGED << wsvars, hsvars, ccvars, clvars, rtvars >>

\* step 2: the request message is serialized, sent, and reaches the peer
RqSend(t) ==
    /\ rq[t].pc = "subscribed"
    /\ peerGot' = peerGot \cup {rq[t].id}
    /\ rq' = [rq EXCEPT ![t].pc = "waiting"]
    /\ UNCHANGED << dp, emitted, idCounter, sub, inbox, replies, nReq >>
    /\ UNCHANGED << wsvars, hsvars, ccvars, clvars, rtvars >>

\* step 3: subscribe to the fan-out channel, "before sending"; the
\* subscription sees what is published from now on
RqSubscribe(t) ==
    /\ rq[t].pc = "allocated"
    /\ sub' = [sub EXCEPT ![t] = [on |-> TRUE, q |-> << >>]]
    /\ rq' = [rq EXCEPT ![t].pc = "subscribed"]
    /\ UNCHANGED << dp, emitted, idCounter, peerGot, inbox, replies, nReq >>
    /\ UNCHANGED << wsvars, hsvars, ccvars, clvars, rtvars >>

\* step 4: receive the next message; one of another id is discarded, a match
\* is returned as Ok (response) or Err (error) and the subscription dropped
RqRecv(t) ==
    /\ rq[t].pc = "waiting"
    /\ sub[t].q # << >>
    /\ LET m == Head(sub[t].q)
       IN  IF IdMatches(m, rq[t].id)
           THEN /\ rq' = [rq EXCEPT ![t].pc = "returned",
                                    ![t].ok = ~m.is_error,
                                    ![t].val = m.payload]
                /\ sub' = [sub EXCEPT ![t] = [on |-> FALSE, q |-> << >>]]
           ELSE /\ sub' = [sub EXCEPT ![t].q = Tail(sub[t].q)]
                /\ UNCHANGED rq
    /\ UNCHANGED << dp, emitted, idCounter, peerGot, inbox, replies, nReq >>
    /\ UNCHANGED << wsvars, hsvars, ccvars, clvars, rtvars >>

\* the peer answers one of the requests it holds, in any order, with a
\* response or an error
PeerReply ==
    /\ \E id \in peerGot, isErr \in BOOLEAN :
          /\ inbox' = Append(inbox, Msg(id, isErr))
          /\ replies' = replies \cup {Msg(id, isErr)}
          /\ peerGot' = peerGot \ {id}
    /\ UNCHANGED << dp, emitted, idCounter, rq, sub, nReq >>
    /\ UNCHANGED << wsvars, hsvars, ccvars, clvars, rtvars >>

\* the receiver task takes the next inbound message and publishes
\* (id, is_error, payload) to the fan-out: every subscription gets it
RecvPublish ==
    /\ inbox # << >>
    /\ sub' = [t \in Tasks |->
                  IF sub[t].on
                  THEN [sub[t] EXCEPT !.q = Append(sub[t].q, Head(inbox))]
                  ELSE sub[t]]
    /\ inbox' = Tail(inbox)
    /\ UNCHANGED << dp, emitted, idCounter, rq, peerGot, replies, nReq >>
    /\ UNCHANGED << wsvars, hsvars, ccvars, clvars, rtvars >>

InitRpc ==
    /\ InitWsIdle
    /\ InitHsIdle
    /\ InitCcIdle
    /\ InitSeIdle

NextRpc ==
    \/ \E t \in Tasks : RqAlloc(t)
    \/ \E t \in Tasks : RqSend(t)
    \/ \E t \in Tasks : RqSubscribe(t)
    \/ \E t \in Tasks : RqRecv(t)
    \/ PeerReply
    \/ RecvPublish

SpecRpc == InitRpc /\ [][NextRpc]_vars

(***************************************************************************)
(* The synchronous Session::read_t of src/src/session.rs.  The stream is   *)
(* taken one frame at a time: a frame is its FIN bit, opcode, MASK bit and *)
(* unmasked payload (payload_len is its length), and cut names the part in *)
(* which a read_exact fails: "hdr-eof", "hdr-timeout", "hdr-err" for the   *)
(* header read, "ext", "mask", "pay" for an end of stream further in.      *)
(***************************************************************************)
RtEvents ==
    LET long == [i \in 1..126 |-> 120]
        F(fin, op, masked, payload, cut) ==
            [fin |-> fin, op |-> op, masked |-> masked, payload |-> payload,
             cut |-> cut]
    IN  { F(fin, op, masked, pl, "none") :
            fin \in BOOLEAN, op \in {OpCont, OpText, OpBinary},
            masked \in BOOLEAN, pl \in {<< 49 >>, << 255 >>} }
        \cup { F(fin, OpBinary, TRUE, long, "none") : fin \in BOOLEAN }
        \cup { F(fin, op, masked, pl, "none") :
            fin \in BOOLEAN, op \in {OpClose, OpPing, OpPong, 3},
            masked \in BOOLEAN, pl \in {<< >>, long} }
        \cup { F(TRUE, OpBinary, TRUE, long, cut) :
            cut \in {"ext", "mask", "pay"} }
        \cup { F(TRUE, OpCont, FALSE, << >>, cut) :
            cut \in {"hdr-eof", "hdr-timeout", "hdr-err"} }

\* the conversion after the loop: text is parsed as JSON (here: a number
\* is what T accepts), text that is not UTF-8 is kept as Binary
RtConvert(type, payload) ==
    IF type = OpText
    THEN IF Utf8Valid(payload)
         THEN IF /\ payload # << >>
                 /\ \A i \in 1..Len(payload) : payload[i] \in 48..57
                 /\ Len(payload) > 1 => payload[1] # 48
              THEN "Ok(SessionMessage)"
              ELSE "Err(Json)"
         ELSE "Ok(Binary)"
    ELSE IF type = OpBinary THEN "Ok(Binary)"
    ELSE "Ok(None)"

\* a call of read_t: fresh locals
RtCall ==
    /\ rt.pc \in {"idle", "done"}
    /\ rt' = [NoRt EXCEPT !.pc = "loop"]
    /\ UNCHANGED << rtIn, rtN >>
    /\ UNCHANGED << wsvars, hsvars, ccvars, rpcvars, clvars >>

\* the peer produces the next frame, or the read of the header fails; past
\* the bound the peer has gone and the stream is at its end
RtArrive ==
    /\ rt.pc = "loop"
    /\ rtIn = << >>
    /\ \E f \in RtEvents :
          /\ rtN >= MaxRtFrames => f.cut = "hdr-eof"
          /\ rtIn' = << f >>
    /\ rtN' = IF rtN < MaxRtFrames THEN rtN + 1 ELSE rtN
    /\ UNCHANGED rt
    /\ UNCHANGED << wsvars, hsvars, ccvars, rpcvars, clvars >>

\* one turn of the loop of read_t on the frame at hand, through to the
\* return where the turn ends the call
RtFrame ==
    /\ rt.pc = "loop"
    /\ rtIn # << >>
    /\ LET f == rtIn[1]
           n == Len(f.payload)
           control == f.op \in {OpClose, OpPing, OpPong}
           log == Append(rt.log, [f |-> f, exp |-> rt.expecting])
           Ret(res, sends) == [rt EXCEPT !.pc = "done", !.res = res,
                                         !.sent = @ \o sends, !.log = log]
           Go(sends) == [rt EXCEPT !.sent = @ \o sends, !.log = log]
           Closed == Ret("Ok(None)", << "close" >>)
           IoErr == Ret("Err(Io)", << >>)
           msg == rt.payload \o f.payload
           Data == IF f.fin
                   THEN [Ret(RtConvert(f.op, msg), << >>)
                            EXCEPT !.payload = msg, !.type = f.op]
                   ELSE [Go(<< >>) EXCEPT !.payload = msg, !.type = f.op,
                                          !.expecting = TRUE]
       IN  /\ rtIn' = IF f.cut = "hdr-eof" THEN rtIn ELSE << >>
           /\ \E sendOk \in BOOLEAN :
                rt' =
                  IF f.cut = "hdr-timeout"
                  THEN IF sendOk THEN Go(<< "ping" >>) ELSE IoErr
                  ELSE IF f.cut = "hdr-eof" THEN Ret("Ok(None)", << >>)
                  ELSE IF f.cut = "hdr-err" THEN IoErr
                  ELSE IF n >= 126 /\ f.cut = "ext" THEN IoErr
                  ELSE IF f.masked /\ f.cut = "mask" THEN IoErr
                  ELSE IF ~f.masked THEN Closed
                  ELSE IF control /\ n > 125 THEN Closed
                  ELSE IF control /\ ~f.fin THEN Closed
                  ELSE IF n > 0 /\ f.cut = "pay" THEN IoErr
                  ELSE IF f.op = OpCont
                  THEN IF ~rt.expecting THEN Closed
                       ELSE IF f.fin
                            THEN [Ret(RtConvert(rt.type, msg), << >>)
                                     EXCEPT !.payload = msg]
                            ELSE [Go(<< >>) EXCEPT !.payload = msg]
                  ELSE IF f.op \in {OpText, OpBinary}
                  THEN IF rt.expecting THEN Closed ELSE Data
                  ELSE IF f.op = OpClose THEN Closed
                  ELSE IF f.op = OpPing
                  THEN IF sendOk THEN Go(<< "pong" >>) ELSE IoErr
                  ELSE IF f.op = OpPong THEN Go(<< >>)
                  ELSE Closed
    /\ UNCHANGED rtN
    /\ UNCHANGED << wsvars, hsvars, ccvars, rpcvars, clvars >>

InitReadT ==
    /\ InitWsIdle
    /\ InitHsIdle
    /\ InitCcIdle
    /\ InitSeIdle

NextReadT ==
    \/ RtCall
    \/ RtArrive
    \/ RtFrame

SpecReadT == InitReadT /\ [][NextReadT]_vars

(***************************************************************************)
(* on_request and the receiver's dispatch of inbound requests, after       *)
(* spec.md section 4.4 (method registration, receiver task).               *)
(***************************************************************************)
\* "Second registration under the same name replaces the first."
RegisterKeepFirst(map, m, h) ==
    IF map[m] = NoHandler THEN [map EXCEPT ![m] = h] ELSE map
Register(map, m, h) == [map EXCEPT ![m] = h]

\* on_request<M>(handler): the handler returns Some((false, v)),
\* Some((true, v)) or None
OnRequest ==
    /\ Len(dp.regs) < MaxRegs
    /\ \E m \in Methods, b \in {"response", "error", "none"} :
          LET h == [n |-> Len(dp.regs) + 1, b |-> b]
          IN  dp' = [dp EXCEPT !.map = Register(dp.map, m, h),
                               !.regs = Append(@, [m |-> m, h |-> h])]
    /\ UNCHANGED << emitted, idCounter, rq, sub, peerGot, inbox, replies, nReq >>
    /\ UNCHANGED << wsvars, hsvars, ccvars, clvars, rtvars >>

\* the peer sends request{id, method, data}; its ids count up from 1
PeerRequest ==
    /\ dp.nin < MaxRequests
    /\ \E m \in Methods :
          dp' = [dp EXCEPT !.nin = @ + 1,
                           !.q = Append(@, [id |-> dp.nin + 1, m |-> m])]
    /\ UNCHANGED << emitted, idCounter, rq, sub, peerGot, inbox, replies, nReq >>
    /\ UNCHANGED << wsvars, hsvars, ccvars, clvars, rtvars >>

\* the receiver reads the request and looks up the handler under the map's
\* mutex: none registered, nothing more happens; else the handler is awaited
RecvLookup ==
    /\ dp.cur = << >>
    /\ dp.q # << >>
    /\ LET r == Head(dp.q)
           e == [id |-> r.id, m |-> r.m, h |-> dp.map[r.m],
                 at |-> Len(dp.regs)]
       IN  dp' = IF dp.map[r.m] = NoHandler
                 THEN [dp EXCEPT !.q = Tail(@), !.done = Append(@, e)]
                 ELSE [dp EXCEPT !.q = Tail(@), !.cur = << e >>]
    /\ UNCHANGED << emitted, idCounter, rq, sub, peerGot, inbox, replies, nReq >>
    /\ UNCHANGED << wsvars, hsvars, ccvars, clvars, rtvars >>

\* the handler has returned: on Some((err, val)) the receiver sends response
\* or error with the same id, on None nothing
RecvReply ==
    /\ dp.cur # << >>
    /\ LET e == dp.cur[1]
       IN  dp' = [dp EXCEPT !.cur = << >>,
                           !.done = Append(@, e),
                           !.out = IF e.h.b = "none" THEN @
                                   ELSE Append(@, [id |-> e.id, kind |-> e.h.b])]
    /\ UNCHANGED << emitted, idCounter, rq, sub, peerGot, inbox, replies, nReq >>
    /\ UNCHANGED << wsvars, hsvars, ccvars, clvars, rtvars >>

SpecDispatch ==
    InitRpc /\ [][OnRequest \/ PeerRequest \/ RecvLookup \/ RecvReply]_vars

\* Id allocation alone, from every counter value around the carry of the
\* low half and the wrap of the whole counter (a fresh session holds 0)
Edge == {0, 1, 2, Half - 3, Half - 2, Half - 1}

InitIdAlloc ==
    /\ InitWsIdle
    /\ InitHsIdle
    /\ InitCcIdle
    /\ InitSeRest
    /\ idCounter \in Edge \X Edge

NextIdAlloc == \E t \in Tasks : RqAlloc(t)

SpecIdAlloc == InitIdAlloc /\ [][NextIdAlloc]_vars

(***************************************************************************)
(* The close hook, after spec.md section 4.4: on_close, close(), the       *)
(* receiver's end and the keepalive deadline.  The slot holds "an optional *)
(* one-shot close handler" under its own mutex; a trigger takes the        *)
(* handler out of the slot under the mutex and then runs it.               *)
(***************************************************************************)
\* what a trigger leaves in the slot
SlotAfterPeek(slot) == slot
SlotAfterTake(slot) == << >>

\* on_close(handler): "re-registration replaces the handler"
OnClose ==
    /\ nReg < MaxRegs
    /\ nReg' = nReg + 1
    /\ hookSlot' = << nReg + 1 >>
    /\ lateReg' = (lateReg \/ \E a \in Agents : cl[a].pc # "idle")
    /\ UNCHANGED << cl, held, invoked, nClose, ka >>
    /\ UNCHANGED << wsvars, hsvars, ccvars, rpcvars, rtvars >>

\* a task calls close(): the close frame is sent, then the hook triggered
CloseCall(a) ==
    /\ a \in Tasks
    /\ cl[a].pc \in {"idle", "finished"}
    /\ nClose < MaxCalls
    /\ nClose' = nClose + 1
    /\ cl' = [cl EXCEPT ![a] = [pc |-> "closing", left |-> 1]]
    /\ UNCHANGED << hookSlot, held, invoked, nReg, ka, lateReg >>
    /\ UNCHANGED << wsvars, hsvars, ccvars, rpcvars, rtvars >>

\* start_ping: "every interval, send ping", then await a pong
KaPing ==
    /\ cl[Keepalive].pc = "idle"
    /\ ka.pings < MaxPings
    /\ ka' = [ka EXCEPT !.pings = @ + 1]
    /\ cl' = [cl EXCEPT ![Keepalive].pc = "await"]
    /\ UNCHANGED << hookSlot, held, invoked, nReg, nClose, lateReg >>
    /\ UNCHANGED << wsvars, hsvars, ccvars, rpcvars, rtvars >>

\* the receiver publishes an inbound Pong to the pong-notifier before the
\* deadline: the keepalive task goes back to waiting for the next interval
KaPong ==
    /\ cl[Keepalive].pc = "await"
    /\ cl[Receiver].pc = "idle"
    /\ ka' = [ka EXCEPT !.pongs = @ + 1]
    /\ cl' = [cl EXCEPT ![Keepalive].pc = "idle"]
    /\ UNCHANGED << hookSlot, held, invoked, nReg, nClose, lateReg >>
    /\ UNCHANGED << wsvars, hsvars, ccvars, rpcvars, rtvars >>

\* where the keepalive task goes when the deadline is missed
AfterDeadlineWaitOn == [pc |-> "idle", left |-> 0]
AfterDeadline == [pc |-> "closing", left |-> 2]

\* the keepalive task misses the pong deadline: it initiates close(), which
\* triggers the hook, then triggers the hook itself and terminates
KeepaliveTimeout ==
    /\ cl[Keepalive].pc = "await"
    /\ cl' = [cl EXCEPT ![Keepalive] = AfterDeadline]
    /\ ka' = [ka EXCEPT !.missed = @ + 1]
    /\ UNCHANGED << hookSlot, held, invoked, nReg, nClose, lateReg >>
    /\ UNCHANGED << wsvars, hsvars, ccvars, rpcvars, rtvars >>

\* the receiver's read fails or yields a Close frame: it invokes the close
\* hook and terminates
ReceiverEnd ==
    /\ cl[Receiver].pc = "idle"
    /\ \E why \in {"read error", "close frame"} :
          cl' = [cl EXCEPT ![Receiver] = [pc |-> "trigger", left |-> 1]]
    /\ UNCHANGED << hookSlot, held, invoked, nReg, ka, nClose, lateReg >>
    /\ UNCHANGED << wsvars, hsvars, ccvars, rpcvars, rtvars >>

\* close() has sent (or failed to send) its close frame
CloseSent(a) ==
    /\ cl[a].pc = "closing"
    /\ cl' = [cl EXCEPT ![a].pc = "trigger"]
    /\ ka' = IF a = Keepalive THEN [ka EXCEPT !.closes = @ + 1] ELSE ka
    /\ UNCHANGED << hookSlot, held, invoked, nReg, nClose, lateReg >>
    /\ UNCHANGED << wsvars, hsvars, ccvars, rpcvars, rtvars >>

\* where an agent goes after one trigger
AfterTrigger(c) ==
    IF c.left > 1 THEN [pc |-> "trigger", left |-> c.left - 1]
    ELSE [pc |-> "finished", left |-> 0]

\* the trigger, under the slot's mutex: the handler is taken out of the slot
HookTake(a) ==
    /\ cl[a].pc = "trigger"
    /\ held' = [held EXCEPT ![a] = hookSlot]
    /\ hookSlot' = SlotAfterTake(hookSlot)
    /\ cl' = [cl EXCEPT ![a] = IF hookSlot = << >> THEN AfterTrigger(cl[a])
                                ELSE [cl[a] EXCEPT !.pc = "invoke"]]
    /\ UNCHANGED << invoked, nReg, ka, nClose, lateReg >>
    /\ UNCHANGED << wsvars, hsvars, ccvars, rpcvars, rtvars >>

\* the handler that was taken runs
HookInvoke(a) ==
    /\ cl[a].pc = "invoke"
    /\ invoked' = [invoked EXCEPT ![held[a][1]] = @ + 1]
    /\ held' = [held EXCEPT ![a] = << >>]
    /\ cl' = [cl EXCEPT ![a] = AfterTrigger(cl[a])]
    /\ UNCHANGED << hookSlot, nReg, ka, nClose, lateReg >>
    /\ UNCHANGED << wsvars, hsvars, ccvars, rpcvars, rtvars >>

InitClose ==
    /\ InitWsIdle
    /\ InitHsIdle
    /\ InitCcIdle
    /\ InitSeIdle

NextClose ==
    \/ OnClose
    \/ \E a \in Tasks : CloseCall(a)
    \/ KaPing
    \/ KaPong
    \/ KeepaliveTimeout
    \/ ReceiverEnd
    \/ \E a \in Agents : CloseSent(a)
    \/ \E a \in Agents : HookTake(a)
    \/ \E a \in Agents : HookInvoke(a)

SpecClose == InitClose /\ [][NextClose]_vars

\* the executor keeps running the keepalive task once its deadline passed
KeepaliveFair ==
    /\ WF_vars(CloseSent(Keepalive))
    /\ WF_vars(HookTake(Keepalive))
    /\ WF_vars(HookInvoke(Keepalive))

SpecKeepalive == InitClose /\ [][NextClose]_vars /\ KeepaliveFair

(***************************************************************************)
(* C1  Write atomicity.                                                    *)
(***************************************************************************)
\* the bytes a send_frame call has put on the wire, in order
BytesOf(c) ==
    LET RECURSIVE Pick(_)
        Pick(i) == IF i > Len(wire) THEN << >>
                   ELSE IF wireTag[i] = c THEN << wire[i] >> \o Pick(i + 1)
                   ELSE Pick(i + 1)
    IN  Pick(1)

\* the complete frame of a call: header, optional mask key, payload
FrameOf(c) ==
    SendFrameBytes(maskPayload, callLog[c].op, callLog[c].payload,
                   callLog[c].key)

\* the call has passed the lock and, in the masking role, drawn its key
KeyDrawn(c) == maskPayload => callLog[c].key # NoKey

\* no byte of one frame lies between two bytes of another: once the bytes
\* of a call are followed by a byte of another call, none of its bytes follows
Contiguous ==
    \A i \in 1..(Len(wire) - 1) :
        wireTag[i] # wireTag[i + 1] =>
            \A k \in (i + 1)..Len(wire) : wireTag[k] # wireTag[i]

\* C1: the byte stream on the socket is a concatenation of complete frames
\* in the order the calls took the writer lock: no byte of one frame is
\* written between the first and the last byte of another frame, every call
\* that returned Ok has exactly its whole frame on the wire, and only the
\* frame written last can be incomplete (a write in progress or failed).
C1_WriteAtomicity ==
    /\ Len(wireTag) = Len(wire)
    /\ Contiguous
    /\ \A c \in 1..ncalls :
          IF KeyDrawn(c)
          THEN LET written == BytesOf(c)
                   frame == FrameOf(c)
               IN  IF written = frame THEN TRUE
                   ELSE /\ IsPrefix(written, frame)
                        /\ callLog[c].st # "ok"
                        /\ written = << >> \/ wireTag[Len(wire)] = c
          ELSE BytesOf(c) = << >> /\ callLog[c].st = "run"

\* one task is between the header and the payload of its frame while another
\* task waits for the writer lock
C1_Witness ==
    \E t, u \in Tasks :
        /\ t # u
        /\ pc[t] = "sf_pay" /\ wlock = t /\ sf[t].payload # << >>
        /\ BytesOf(sf[t].call) # << >>
        /\ pc[u] = "sf_lock"


(***************************************************************************)
(* C4  Fragmentation transparency.                                         *)
(***************************************************************************)
RECURSIVE ConcatPayloads(_)
ConcatPayloads(log) ==
    IF log = << >> THEN << >>
    ELSE log[1].payload \o ConcatPayloads(Tail(log))

\* an initial Text/Binary frame with FIN=0, then continuation frames of which
\* only the last has FIN=1
Fragmented(log) ==
    /\ Len(log) >= 2
    /\ log[1].op \in {OpText, OpBinary}
    /\ \A i \in 2..Len(log) : log[i].op = OpCont
    /\ \A i \in 1..Len(log) : log[i].fin <=> i = Len(log)

\* C4: when the frames consumed by one read are a fragmented message, read
\* returns what it returns for one FIN=1 frame that carries the opcode of the
\* initial frame and the concatenation of all the fragments' payloads, the
\* final fragment's included.
C4_FragmentationTransparency ==
    \A t \in Readers :
        (/\ pc[t] = "done_read"
         /\ rd[t].aligned
         /\ peerMasks
         /\ Fragmented(peerLog))
            => << rd[t].res, rd[t].val >>
                   = DataResult(peerLog[1].op, ConcatPayloads(peerLog))

(***************************************************************************)
(* C5  Frame round-trip.                                                   *)
(***************************************************************************)
\* a frame as the peer's send / send_bin writes it
IsSentData(f) == f.fin /\ f.op \in {OpText, OpBinary} /\ f.enc = "min"

\* C5: a Text or Binary frame written by send_frame in the peer's role
\* (masked by a client, unmasked by a server) is decoded by read_frame to
\* FIN=1, the same opcode and the same payload; read_frame consumes exactly
\* the frame's bytes and reads no mask key when the mask bit is clear.
C5_FrameRoundTrip ==
    \A t \in Readers :
        (/\ pc[t] = "rd_first"
         /\ rd[t].aligned
         /\ peerMasks = ~maskPayload
         /\ peerLog # << >>
         /\ IsSentData(peerLog[1]))
            => /\ rf[t].res = "Ok"
               /\ rf[t].fin
               /\ rf[t].op = peerLog[1].op
               /\ rf[t].payload = peerLog[1].payload
               /\ rf[t].used = Len(PeerBytes(peerLog[1], peerMasks))
               /\ ~rf[t].masked => rf[t].mask = NoKey

(***************************************************************************)
(* C6  Masking direction.                                                  *)
(***************************************************************************)
\* the task's read has tried to send a close frame
CloseTried(t) ==
    \E c \in 1..ncalls :
        /\ callLog[c].op = OpClose
        /\ callLog[c].task = t
        /\ callLog[c].st = "ok" \/ (callLog[c].st = "err" /\ sockBroken)

\* C6: on a server-role connection (mask_payload = false) a frame whose mask
\* bit is clear never reaches the mask-key and payload steps of read_frame,
\* and the read that met it ends in Err(InvalidFrame) after a close frame was
\* sent (written whole unless the transport failed the write), so it returns
\* no Text or Binary frame.  (If the stream ends inside the extended length
\* of that frame, the read ends in Err(Io) instead.)
C6_MaskingDirection ==
    \A t \in Readers :
        /\ (~maskPayload /\ pc[t] \in {"rf_mask", "rf_pay"}) => rf[t].masked
        /\ (~maskPayload /\ pc[t] = "done_read" /\ rd[t].unmasked)
              => \/ /\ rd[t].res = "InvalidFrame"
                    /\ rd[t].val = << >>
                    /\ CloseTried(t)
                 \/ rd[t].res = "Io" /\ peerClosed

\* a server-role read met an unmasked Text frame, failed with InvalidFrame,
\* and its close frame is on the wire
C6_Witness ==
    \E t \in Readers :
        /\ ~maskPayload /\ ~peerMasks
        /\ pc[t] = "done_read"
        /\ rd[t].aligned /\ rd[t].unmasked
        /\ peerLog # << >> /\ peerLog[1].op = OpText
        /\ rd[t].res = "InvalidFrame"
        /\ wire = << 136, 0 >>

(***************************************************************************)
(* Server handshake and session_loop.                                      *)
(***************************************************************************)
\* the accepted stream was answered with a plain HTTP 200
HealthChecked == hsResp.code \in {"200-empty", "200-OK"}

\* C7: a stream whose request was a HEAD, or a GET without
\* `Upgrade: websocket`, is answered with a plain 200 and no session is made
\* from it: accept yields none, session_loop starts no receiver and spawns
\* no per-session function for it.
C7_HealthCheckNoSession ==
    HealthChecked =>
        /\ sess = << >>
        /\ hsPc \notin {"start_receiver", "spawn"}

\* C8: session_loop returns an error only when the TCP accept itself fails;
\* a failed handshake of one connection leaves it running.
C8_LoopSurvivesBadClients ==
    loopRes # "running" => loopRes = "Err:Io:listener"

\* the value contains "upgrade", whatever the case of its letters
ContainsUpgrade(v) == v \in {"Upgrade", "keep-alive, Upgrade"}

\* C10: the 101 response is written only for a request that carries a
\* Sec-WebSocket-Key, whose Connection header contains "upgrade", and whose
\* Sec-WebSocket-Version, when present, is 13.
C10_HandshakeValidation ==
    hsResp.code = "101" =>
        /\ headers["sec-websocket-key"] # "absent"
        /\ ContainsUpgrade(headers["connection"])
        /\ headers["sec-websocket-version"] \in {"absent", "13"}

(***************************************************************************)
(* The accept check of the handshake.                                      *)
(***************************************************************************)
\* the Sec-WebSocket-Accept value a reply's header block carries
RECURSIVE AcceptIn(_)
AcceptIn(lines) ==
    IF lines = << >> \/ Head(lines).t \in {"crlf", "lf", "eof"}
    THEN "absent"
    ELSE LET later == AcceptIn(Tail(lines))
             this == IF Head(lines).t = "hdr"
                        /\ Head(lines).k \in {"Sec-WebSocket-Accept",
                                              "sec-websocket-accept"}
                     THEN Trim(Head(lines).v) ELSE "absent"
         IN  IF later # "absent" THEN later ELSE this

\* the reply is a 101 whose accept value is accept(k) for the key sent
GoodReply ==
    /\ ccReply # << >>
    /\ Head(ccReply) = Status("101")
    /\ AcceptIn(Tail(ccReply)) = AcceptOf(ccKey)

\* C9: the server's 101 carries accept(k) for the key it received; connect
\* returns Ok exactly when the reply is a 101 whose accept value is accept(k)
\* for the key it sent, and every other reply it has read yields
\* HandshakeFailed and no connection.
C9_AcceptCheck ==
    /\ (ccPeer = "ours" /\ hsResp.code = "101") =>
            hsResp.accept = AcceptOf(ccKey)
    /\ (ccPc = "done" /\ ccRes # "Err:Io") =>
            /\ ccRes = "Ok" <=> GoodReply
            /\ ccRes # "Ok" =>
                  ccRes \in {"Err:HandshakeFailed:Expected 101",
                             "Err:HandshakeFailed:Sec-WebSocket-Accept mismatch"}
    /\ ccWs # << >> <=> ccRes = "Ok"
    /\ (ccPeer = "ours" /\ ccPc = "done" /\ hsRes = "Ok") =>
            ccRes \in {"Ok", "Err:Io"}

\* connect succeeded against this crate's server handshake
C9_Witness ==
    /\ ccPc = "done"
    /\ ccPeer = "ours"
    /\ ccRes = "Ok"
    /\ hsResp.code = "101"

(***************************************************************************)
(* Request/response correlation.                                           *)
(***************************************************************************)
\* C2: a request call that returns hands back exactly a reply the peer sent
\* for the id that call sent, as Ok for a response and Err for an error, and
\* never the payload of another id; calls in flight hold different ids.
C2_RequestCorrelation ==
    /\ \A t \in Tasks :
          rq[t].pc = "returned" =>
              /\ rq[t].val = rq[t].id
              /\ Msg(rq[t].id, ~rq[t].ok) \in replies
    /\ \A t, u \in Tasks :
          (t # u /\ rq[t].pc # "idle" /\ rq[u].pc # "idle") => rq[t].id # rq[u].id

\* a call returned its own reply after discarding the reply to another call
\* that was in flight with it
C2_Witness ==
    \E t, u \in Tasks :
        /\ t # u
        /\ rq[t].pc = "returned"
        /\ rq[u].pc \in {"waiting", "returned"}
        /\ rq[u].id # rq[t].id
        /\ Msg(rq[u].id, TRUE) \in replies
        /\ rq[t].ok

(***************************************************************************)
(* At-most-once close hook.                                                *)
(***************************************************************************)
RECURSIVE SumInvoked(_)
SumInvoked(hs) ==
    IF hs = {} THEN 0
    ELSE LET h == CHOOSE x \in hs : TRUE
         IN  invoked[h] + SumInvoked(hs \ {h})

Decodable(t) == rd[t].aligned /\ peerMasks /\ peerLog # << >>

IsControl(op) == op \in {OpClose, OpPing, OpPong}

\* C11: a control frame with FIN=0 (or a payload longer than 125 bytes) is
\* rejected by read as a protocol error: the read that met it returns no
\* Close, Ping or Pong and sends no Pong.
C11_ControlFrameConstraints ==
    \A t \in Readers :
        (/\ pc[t] = "done_read"
         /\ Decodable(t)
         /\ IsControl(peerLog[1].op)
         /\ ~peerLog[1].fin)
            => /\ rd[t].res \notin {"Close", "Ping", "Pong"}
               /\ \A i \in 1..Len(rd[t].sent) : rd[t].sent[i] # OpPong

\* C12: when the first frame of a read is a continuation or has an opcode
\* outside 0x1, 0x2, 0x8, 0x9, 0xA, then with FIN set or clear the read
\* sends a close frame and returns InvalidFrame.
C12_CannotStartMessage ==
    \A t \in Readers :
        (/\ pc[t] = "done_read"
         /\ Decodable(t)
         /\ peerLog[1].op \notin {OpText, OpBinary, OpClose, OpPing, OpPong})
            => /\ rd[t].res = "InvalidFrame"
               /\ CloseTried(t)

\* the frame the peer sent after the first one of this read
SecondFrame(t) == peerLog[2]

\* the read began a fragmented message and a further frame followed
InMessage(t) ==
    /\ Decodable(t)
    /\ Len(peerLog) >= 2
    /\ peerLog[1].op \in {OpText, OpBinary}
    /\ ~peerLog[1].fin

\* the peer's frames of this read end with the final continuation frame
EndsWithFinalCont ==
    peerLog[Len(peerLog)].op = OpCont /\ peerLog[Len(peerLog)].fin

\* the Pong frames this read has sent
PongsSent(t) == Len(SelectSeq(rd[t].sent, LAMBDA o : o = OpPong))

\* C16: a well-formed Ping or Pong between two fragments does not end the
\* reassembly: the read returns a message only after the final continuation
\* frame, and it has answered the Ping with exactly one Pong (a Pong with
\* none).
C16_ControlInsideFragments ==
    \A t \in Readers :
        (/\ pc[t] = "done_read"
         /\ InMessage(t)
         /\ SecondFrame(t).op \in {OpPing, OpPong}
         /\ SecondFrame(t).fin
         /\ rd[t].res \in {"Text", "Binary", "Utf8"})
            => /\ EndsWithFinalCont
               /\ ~sockBroken =>
                     PongsSent(t) = (IF SecondFrame(t).op = OpPing THEN 1 ELSE 0)

\* C17: a Text or Binary frame that arrives after the initial fragment and
\* before the final continuation, with FIN set or clear, makes the read fail
\* with a protocol error; the read returns no message.
C17_NewDataInsideFragments ==
    \A t \in Readers :
        (/\ pc[t] = "done_read"
         /\ InMessage(t)
         /\ SecondFrame(t).op \in {OpText, OpBinary})
            => rd[t].res = "InvalidFrame"

(***************************************************************************)
(* read(): replies to control frames.                                      *)
(***************************************************************************)
\* the name read gives a control opcode, and the frame it sends in reply
FrameName(op) ==
    CASE op = OpClose -> "Close" [] op = OpPing -> "Ping" [] OTHER -> "Pong"

ReplyTo(op) ==
    CASE op = OpClose -> << OpClose >> [] op = OpPing -> << OpPong >>
      [] OTHER -> << >>

\* C18: a well-formed control frame (FIN=1, masked by a client, unmasked by
\* a server) that is the next frame makes read return that control frame,
\* having sent exactly one Pong for a Ping, one Close for a Close, nothing
\* for a Pong (the reply is on the wire unless the transport failed).
C18_ControlFrameReplies ==
    \A t \in Readers :
        (/\ pc[t] = "done_read"
         /\ rd[t].aligned
         /\ peerMasks = ~maskPayload
         /\ peerLog # << >>
         /\ IsControl(peerLog[1].op)
         /\ peerLog[1].fin)
            => /\ rd[t].res = FrameName(peerLog[1].op)
               /\ ~sockBroken => rd[t].sent = ReplyTo(peerLog[1].op)
               /\ Len(peerLog) = 1

\* C13: keepalive deadline.  A missed deadline makes the keepalive task send
\* close, trigger the close hook (a handler registered beforehand is taken
\* from the slot once and run at most once) and terminate, after which it
\* sends no further ping; as long as every ping was answered by a pong the
\* keepalive task does not close the session.
KaStopped == cl[Keepalive].pc \notin {"idle", "await"}
HandlersHeld == Cardinality({ a \in Agents : held[a] # << >> })
C13_Answered == (ka.pongs = ka.pings) => ~KaStopped /\ ka.closes = 0
C13_Missed ==
    /\ ka.missed > 0 => KaStopped /\ ka.missed = 1
    /\ KaStopped => ka.missed = 1 /\ ka.pongs + 1 = ka.pings
    /\ cl[Keepalive].pc \in {"trigger", "invoke", "finished"} => ka.closes = 1
    /\ cl[Keepalive].pc = "finished" /\ nReg > 0 /\ ~lateReg
          => hookSlot = << >> /\ SumInvoked(Handlers) + HandlersHeld = 1
C13_NoPingAfter == [][KaStopped => ka'.pings = ka.pings]_vars
Fresh == emitted # << >> /\ emitted[1].at = << 0, 0 >>
RtLast == rt.log[Len(rt.log)]
RtViolation(e) ==
    /\ e.f.cut = "none"
    /\ \/ ~e.f.masked
       \/ e.f.op \in {OpClose, OpPing, OpPong}
            /\ (Len(e.f.payload) > 125 \/ ~e.f.fin)
       \/ e.f.op = OpCont /\ ~e.exp
       \/ e.f.op \in {OpText, OpBinary} /\ e.exp
       \/ e.f.op \notin {OpCont, OpText, OpBinary, OpClose, OpPing, OpPong}
C15_ReadTResultConvention ==
    rt.pc = "done" =>
        /\ rt.res = "Ok(None)" =>
              \/ RtLast.f.cut = "hdr-eof"
              \/ RtLast.f.cut = "none" /\ RtLast.f.op = OpClose
                    /\ ~RtViolation(RtLast)
        /\ RtViolation(RtLast) => rt.res \in {"Err(Io)", "Err(Json)"}

\* C19: reader exclusion spans a whole reassembled message.  With two tasks
\* in read() on one connection, the frame that follows a non-final
\* Text/Binary fragment in the stream is taken by the same task, in the
\* same read() call, as that fragment.
HeaderAt(i) == i \in 1..Len(took) /\ took[i].part = "hdr"
NextHeader(i, j) ==
    /\ HeaderAt(i) /\ HeaderAt(j) /\ i < j
    /\ \A k \in (i + 1)..(j - 1) : ~HeaderAt(k)
C19_ReaderExclusionSpansMessage ==
    peerMasks =>
        \A i, j \in 1..Len(took) :
            /\ NextHeader(i, j)
            /\ took[i].op \in {OpText, OpBinary}
            /\ ~took[i].fin
            => took[j].t = took[i].t /\ ~took[j].first

\* C20: single decoder per frame.  At most one task is inside the decoding
\* of a frame, it holds the reader guard, and the extended length, mask key
\* and payload of a frame are taken by the task that took its header, in
\* that order with nothing of another task in between.
Decoding(t) ==
    \/ pc[t] \in {"rf_hdr", "rf_ext", "rf_chk", "rf_mask", "rf_pay", "rf_bad"}
    \/ pc[t] \in {"sf_lock", "sf_hdr", "sf_pay", "sf_flush"}
          /\ sf[t].ret = "rf_bad"
PartBefore(part) ==
    CASE part = "ext" -> {"hdr"}
      [] part = "mask" -> {"hdr", "ext"}
      [] part = "pay" -> {"mask"}
      [] OTHER -> {}
WrittenShape(c) ==
    LET w == BytesOf(c)
        n == Len(callLog[c].payload)
    IN  /\ Len(w) >= 1 =>
              /\ w[1] >= 128
              /\ (w[1] \div 16) % 8 = 0
              /\ w[1] % 16 = callLog[c].op
        /\ Len(w) >= 2 =>
              /\ (w[2] >= 128) = maskPayload
              /\ w[2] % 128 = n
        /\ callLog[c].st = "ok" =>
              IF maskPayload
              THEN /\ Len(w) = 6 + n
                   /\ XorMask(Drop(w, 6), Take(Drop(w, 2), 4))
                         = callLog[c].payload
              ELSE /\ Len(w) = 2 + n
                   /\ Drop(w, 2) = callLog[c].payload
C21_RoleFixed == [][maskPayload' = maskPayload]_vars
C21_OutgoingFrameShape ==
    /\ [](/\ ConnectWs.mask_payload /\ ~HandshakeWs.mask_payload
          /\ \A c \in 1..ncalls : WrittenShape(c))
    /\ C21_RoleFixed
C21_Witness ==
    /\ maskPayload = ConnectWs.mask_payload
    /\ \E c \in 1..ncalls :
          callLog[c].st = "ok" /\ callLog[c].payload # << >>
    /\ \E c \in 1..ncalls : callLog[c].st = "err" /\ Len(BytesOf(c)) >= 2

\* C22: the ping loop stops on failure.  The spawned task sends one ping
\* after another while send_ping succeeds; a ping that failed is the last
\* one the task attempted, and once the task has ended it stays ended and
\* attempts no further ping.
PingsOf(t) ==
    { c \in 1..ncalls : callLog[c].task = t /\ callLog[c].op = OpPing }
C22_Stops ==
    /\ \A c, d \in PingsOf(1) : c < d => callLog[c].st = "ok"
    /\ pc[1] = "pl_tick" =>
          PingsOf(1) # {} /\ \A c \in PingsOf(1) : callLog[c].st = "ok"
    /\ pc[1] = "pl_done" => \E c \in PingsOf(1) : callLog[c].st = "err"
    /\ (\E c \in PingsOf(1) : callLog[c].st = "err")
          => pc[1] \in {"pl_ret", "pl_done"}
C22_Ended ==
    [][pc[1] = "pl_done" => pc'[1] = "pl_done" /\ PingsOf(1)' = PingsOf(1)]_vars
C22_PingLoopStopsOnFailure == []C22_Stops /\ C22_Ended
C22_Witness ==
    /\ pc[1] = "pl_done"
    /\ Cardinality(PingsOf(1)) = 2
    /\ ncalls <= MaxCalls

\* C23: start-up order in session_loop.  For every session the handshake
\* returned, the receiver is started before f is spawned and f is spawned
\* once; the spawn does not wait for f (no spawned f ever finishes here):
\* right after it the loop is back at accept.
C23_Order ==
    /\ hsPc = "start_receiver" => nRecv = nSess - 1 /\ nSpawn = nSess - 1
    /\ hsPc = "spawn" => nRecv = nSess /\ nSpawn = nSess - 1
    /\ hsPc \notin {"start_receiver", "spawn"} =>
          nRecv = nSess /\ nSpawn = nSess
C23_Spawn ==
    [][nSpawn' # nSpawn =>
          /\ nSpawn' = nSpawn + 1
          /\ nRecv = nSess
          /\ sess # << >>
          /\ hsPc' = "accept"]_vars
C23_StartupOrder == []C23_Order /\ C23_Spawn
C23_Witness == nSpawn = 2 /\ nRecv = 2 /\ hsPc = "accept"

\* C24: receiver dispatch of inbound requests.  A dispatched request whose
\* method had a handler that returned Some((is_error, value)) got exactly
\* one reply with its id, a response or an error as is_error says; one with
\* no handler, or whose handler returned None, got none; no other reply was
\* sent; and the handler used was the one registered last under the method
\* when the receiver looked it up.
RepliesTo(id) == SelectSeq(dp.out, LAMBDA o : o.id = id)
LatestHandler(m, at) ==
    LET under == SelectSeq(SubSeq(dp.regs, 1, at), LAMBDA g : g.m = m)
    IN  IF under = << >> THEN NoHandler ELSE under[Len(under)].h
C24_ReceiverDispatch ==
    /\ \A i \in 1..Len(dp.done) :
          LET e == dp.done[i]
          IN  /\ e.h = LatestHandler(e.m, e.at)
              /\ RepliesTo(e.id) =
                    IF e.h.b \in {"response", "error"}
                    THEN << [id |-> e.id, kind |-> e.h.b] >>
                    ELSE << >>
    /\ \A j \in 1..Len(dp.out) :
          \E i \in 1..Len(dp.done) : dp.done[i].id = dp.out[j].id
C24_Witness ==
    /\ Len(dp.done) = 3
    /\ dp.done[1].h = NoHandler
    /\ dp.done[2].h.n = 1 /\ dp.done[2].h.b = "none"
    /\ dp.done[3].h.n = 2 /\ dp.done[3].h.b = "error"
    /\ dp.done[3].m = dp.regs[1].m
    /\ dp.out = << [id |-> 3, kind |-> "error"] >>

\* C25: handshake error kinds.  Every protocol-level rejection, by the
\* server (method other than HEAD/GET, missing Sec-WebSocket-Key) and by
\* the client (status other than 101, accept mismatch), reaches the caller
\* as HandshakeFailed, and Io is reported only for transport faults.
C25_HandshakeErrorKinds ==
    /\ hsRes \in {"Err:InvalidData:Invalid HTTP method",
                   "Err:InvalidData:Missing key"}
          => Surfaced(hsRes) = "HandshakeFailed"
    /\ Surfaced(hsRes) = "Io" => hsRes = "Err:transport"
    /\ ccRes \in {"Err:HandshakeFailed:Expected 101",
                   "Err:HandshakeFailed:Sec-WebSocket-Accept mismatch"}
          => Surfaced(ccRes) = "HandshakeFailed"
    /\ Surfaced(ccRes) = "Io" => ccRes = "Err:Io"

\* C26: the server handshake terminates on every input.  Once the request
\* line of a GET is read, handle_websocket_handshake returns, with success
\* or an error, whatever finite input follows: a stream that ends before
\* the empty line, or header lines that end in a bare LF.
C26_HandshakeTerminates ==
    (hsPc = "hs_headers") ~> (hsPc = "hs_done")

\* C27: no lock cycle between readers and writers.  The writer lock is
\* never held while the reader lock is being acquired: its holder is inside
\* send_frame's write section, where it waits for no lock; every task in the
\* write section is the holder; the only nesting is reader-then-writer.  So
\* no two tasks ever wait on each other's locks.
Writing(t) == pc[t] \in {"sf_hdr", "sf_pay", "sf_flush"}

WaitsFor(t, u) ==
    \/ pc[t] = "rf_lock" /\ rlock = u
    \/ pc[t] = "sf_lock" /\ wlock = u

C27_NoLockCycle ==
    /\ wlock # 0 => Writing(wlock)
    /\ \A t \in Tasks : Writing(t) => wlock = t
    /\ \A t \in Tasks : pc[t] = "rf_lock" => wlock # t /\ rlock # t
    /\ \A t \in Tasks : ~WaitsFor(t, t)
    /\ \A t, u \in Tasks : ~(WaitsFor(t, u) /\ WaitsFor(u, t))

\* a reader holds the reader lock and waits for the writer lock to send its
\* close frame, while another task is writing a frame
C27_Witness ==
    /\ rlock = 1 /\ pc[1] = "sf_lock" /\ sf[1].ret = "rf_bad"
    /\ wlock = 2 /\ pc[2] = "sf_hdr" /\ sf[2].ret = "pl_ret"

============================================================================
